---- MODULE Spec2Model ----
(***************************************************************************)
(* Nexus spec store, operation guards and reconciler of the core agent     *)
(* (control-plane/agents/core/src/nexus/specs.rs).                         *)
(*                                                                         *)
(* A ResourceMutex<NexusSpec> is a shared, reference-counted object: the   *)
(* model keeps a small heap of them (specs, indexed by handle), the store  *)
(* map from nexus id to handle (nexuses), the operation guard of every     *)
(* handle (guards), the persistent store (pstore), the nexus state the     *)
(* registry reports from the storage node (live) and the replica specs     *)
(* with their owners (replicas).  Requests are tasks (proc); every await   *)
(* of the source is a step boundary.                                       *)
(***************************************************************************)
EXTENDS Integers, FiniteSets, Sequences, TLC

\* ------------------------------------------------------------------ bounds
NumProcs == 2
MaxHandles == 2
NumReplicas == 1
MaxLen == 3
MaxSpace == 2
MaxSteps == 2
\* the largest rebuild progress of a nexus child
MaxProgress == 2

Procs == 1..NumProcs
Handles == 1..MaxHandles
Replicas == 1..NumReplicas
NexusIds == {"n1"}
Volumes == {"v1"}

NoHandle == 0
NoChild == 0
NoVolume == "none"
\* the owners a create request names
CreateOwners == {NoVolume}
\* the guard holder id of the reconciler task
Reconciler == 0

\* ------------------------------------------------------------- spec records
NoOp == [op |-> "None", child |-> NoChild, result |-> "None"]

Op(kind, child) == [op |-> kind, child |-> child, result |-> "None"]

FreeSpec ==
    [uuid |-> "free", children |-> {}, share |-> FALSE, owner |-> NoVolume,
     status |-> "Free", operation |-> NoOp]

NoState == [exists |-> FALSE, children |-> {}, share |-> FALSE]

\* no placement pipeline is running
NoSched == [op |-> "none"]

\* a replica that has no spec in the store
NoReplica == [exists |-> FALSE, volume |-> NoVolume, nexuses |-> {}]

IdleProc ==
    [pc |-> "idle", kind |-> "none", nexus |-> "none", child |-> NoChild,
     owner |-> NoVolume, destroy_replica |-> FALSE, hnd |-> NoHandle,
     clone |-> FreeSpec, out |-> "None"]

IdleRec == [pc |-> "idle", todo |-> {}, cur |-> NoHandle, pending_ops |-> FALSE,
            skipped |-> FALSE]

\* observe: whether a finished request keeps its outcome for the caller to
\* read (pc "done") or the task is simply free again
\* sched: the placement pipeline of one request (its context, the candidate
\* list and what the last combinator made of it)
VARIABLES nexuses, specs, guards, pstore, live, replicas, proc, rec, observe,
          sched

vars == <<nexuses, specs, guards, pstore, live, replicas, proc, rec, observe,
          sched>>

\* ------------------------------------------------- NexusSpec (SpecTransaction)
pending_op(spec) == spec.operation.op # "None"

dirty(spec) == pending_op(spec)

\* start_op folding the operation into the spec as it records it
start_op_folding(spec, op) ==
    [spec EXCEPT !.operation = op,
                 !.children = CASE op.op = "AddChild" -> @ \cup {op.child}
                                [] op.op = "RemoveChild" -> @ \ {op.child}
                                [] OTHER -> @,
                 !.share = CASE op.op = "Share" -> TRUE
                             [] op.op = "Unshare" -> FALSE
                             [] OTHER -> @]

start_op(spec, op) == [spec EXCEPT !.operation = op]

clear_op(spec) == [spec EXCEPT !.operation = NoOp]

set_op_result(spec, ok) ==
    [spec EXCEPT !.operation.result = IF ok THEN "Ok" ELSE "Err"]

commit_op(spec) ==
    LET o == spec.operation IN
    CASE o.op = "Create"      -> [spec EXCEPT !.status = "Created", !.operation = NoOp]
      [] o.op = "Destroy"     -> [spec EXCEPT !.status = "Deleted", !.operation = NoOp]
      [] o.op = "Share"       -> [spec EXCEPT !.share = TRUE, !.operation = NoOp]
      [] o.op = "Unshare"     -> [spec EXCEPT !.share = FALSE, !.operation = NoOp]
      [] o.op = "AddChild"    ->
            [spec EXCEPT !.children = @ \cup {o.child}, !.operation = NoOp]
      [] o.op = "RemoveChild" ->
            [spec EXCEPT !.children = @ \ {o.child}, !.operation = NoOp]
      [] OTHER                -> spec

\* NexusSpec::from(&CreateNexus)
NexusSpecFrom(n, children, owner) ==
    [uuid |-> n, children |-> children, share |-> FALSE, owner |-> owner,
     status |-> "Creating", operation |-> NoOp]

\* start_update_op judging Share and Unshare by the spec's own share
start_update_op_spec_share(spec, state, op) ==
    LET err ==
          CASE op.op = "Share" ->
                 IF spec.share THEN "AlreadyShared" ELSE "Ok"
            [] op.op = "Unshare" ->
                 IF ~spec.share THEN "NotShared" ELSE "Ok"
            [] op.op = "AddChild" ->
                 IF op.child \in spec.children THEN "ChildAlreadyExists" ELSE "Ok"
            [] op.op = "RemoveChild" ->
                 IF op.child \notin spec.children /\ op.child \notin state.children
                 THEN "ChildNotFound" ELSE "Ok"
            [] OTHER -> "Unreachable"
    IN [err |-> err, spec |-> IF err = "Ok" THEN start_op(spec, op) ELSE spec]

\* start_update_op judging RemoveChild by the spec's children alone
start_update_op_spec_children(spec, state, op) ==
    LET err ==
          CASE op.op = "Share" ->
                 IF state.share THEN "AlreadyShared" ELSE "Ok"
            [] op.op = "Unshare" ->
                 IF ~state.share THEN "NotShared" ELSE "Ok"
            [] op.op = "AddChild" ->
                 IF op.child \in spec.children THEN "ChildAlreadyExists" ELSE "Ok"
            [] op.op = "RemoveChild" ->
                 IF op.child \notin spec.children
                 THEN "ChildNotFound" ELSE "Ok"
            [] OTHER -> "Unreachable"
    IN [err |-> err, spec |-> IF err = "Ok" THEN start_op(spec, op) ELSE spec]

\* start_update_op judging AddChild by the live state as well as the spec
start_update_op_live_children(spec, state, op) ==
    LET err ==
          CASE op.op = "Share" ->
                 IF state.share THEN "AlreadyShared" ELSE "Ok"
            [] op.op = "Unshare" ->
                 IF ~state.share THEN "NotShared" ELSE "Ok"
            [] op.op = "AddChild" ->
                 IF op.child \in spec.children \/ op.child \in state.children
                 THEN "ChildAlreadyExists" ELSE "Ok"
            [] op.op = "RemoveChild" ->
                 IF op.child \notin spec.children /\ op.child \notin state.children
                 THEN "ChildNotFound" ELSE "Ok"
            [] OTHER -> "Unreachable"
    IN [err |-> err, spec |-> IF err = "Ok" THEN start_op(spec, op) ELSE spec]

\* SpecOperationsHelper::start_update_op: validate against the live state and
\* the spec, then record the operation.
start_update_op(spec, state, op) ==
    LET err ==
          CASE op.op = "Share" ->
                 IF state.share THEN "AlreadyShared" ELSE "Ok"
            [] op.op = "Unshare" ->
                 IF ~state.share THEN "NotShared" ELSE "Ok"
            [] op.op = "AddChild" ->
                 IF op.child \in spec.children THEN "ChildAlreadyExists" ELSE "Ok"
            [] op.op = "RemoveChild" ->
                 IF op.child \notin spec.children /\ op.child \notin state.children
                 THEN "ChildNotFound" ELSE "Ok"
            [] OTHER -> "Unreachable"
    IN [err |-> err, spec |-> IF err = "Ok" THEN start_op(spec, op) ELSE spec]

start_create_op(spec) == start_op(spec, Op("Create", NoChild))

start_destroy_op(spec) == start_op(spec, Op("Destroy", NoChild))

\* ------------------------------------------------------------ object heap
\* A ResourceMutex is an Arc: the object lives while the store, a task or the
\* reconciler still holds a clone of it.
Referenced(h, nx, pr, rc) ==
    \/ \E n \in NexusIds : nx[n] = h
    \/ \E p \in Procs : pr[p].hnd = h
    \/ h \in rc.todo
    \/ rc.cur = h

Collect(sp, nx, pr, rc) ==
    [h \in Handles |-> IF Referenced(h, nx, pr, rc) THEN sp[h] ELSE FreeSpec]

FreeHandles == {h \in Handles : specs[h].status = "Free"}

NewHandle == CHOOSE h \in FreeHandles : \A g \in FreeHandles : h <= g

\* what the persistent store keeps of a spec
Persisted(spec) == [children |-> spec.children, share |-> spec.share,
                    owner |-> spec.owner, status |-> spec.status]

NotStored == [children |-> {}, share |-> FALSE, owner |-> NoVolume, status |-> "None"]

\* ---------------------------------------------------------- operation guard
\* OperationSequenceGuard::operation_guard: granted only when no guard is live
operation_guard_free(h) == guards[h] = {}

Acquire(h, who) == [guards EXCEPT ![h] = @ \cup {who}]

Release(h, who) ==
    IF h = NoHandle THEN guards ELSE [guards EXCEPT ![h] = @ \ {who}]

\* the task returns: its guard and its clone of the handle are dropped, the
\* caller sees the outcome until Return
Outcome(kind, out) ==
    IF observe THEN [IdleProc EXCEPT !.pc = "done", !.kind = kind, !.out = out]
    ELSE IdleProc

Finish(p, out) == [proc EXCEPT ![p] = Outcome(proc[p].kind, out)]

\* ---------------------------------------------------- GuardedOperationsHelper
\* start_update: only a Created spec with no pending operation may start one;
\* the snapshot handed back is the spec before the operation was recorded.
start_update(spec, state, op) ==
    IF spec.status # "Created" THEN [err |-> "NotCreated", spec |-> spec]
    ELSE IF pending_op(spec) THEN [err |-> "Conflict", spec |-> spec]
    ELSE start_update_op(spec, state, op)

start_create(spec) ==
    IF spec.status = "Created" THEN [err |-> "AlreadyExists", spec |-> spec]
    ELSE IF spec.status # "Creating" THEN [err |-> "Deleting", spec |-> spec]
    ELSE IF pending_op(spec) THEN [err |-> "Conflict", spec |-> spec]
    ELSE [err |-> "Ok", spec |-> start_create_op(spec)]

start_destroy(spec) ==
    IF spec.status = "Deleted" THEN [err |-> "AlreadyDeleted", spec |-> spec]
    ELSE IF pending_op(spec) THEN [err |-> "Conflict", spec |-> spec]
    ELSE [err |-> "Ok",
          spec |-> start_destroy_op([spec EXCEPT !.status = "Deleting"])]

\* ------------------------------------------------------------- ownership
\* ReplicaOwners::add_owner / ReplicaSpec::disown of one nexus
add_owner(rs, r, n) == [rs EXCEPT ![r].nexuses = @ \cup {n}]

disown_nexus(rs, r, n) == [rs EXCEPT ![r].nexuses = @ \ {n}]

\* get_replica: Some exactly for a replica that has a spec in the store
get_replica(r) == replicas[r].exists

get_volume_replicas(v) == {r \in Replicas : get_replica(r) /\ replicas[r].volume = v}

\* on_create_set_owners owning every child of the new nexus, whatever the
\* request's owner
on_create_set_owners_every_child(owner, spec, ok) ==
    IF ok
    THEN [r \in Replicas |->
            IF get_replica(r) /\ r \in spec.children
            THEN [replicas[r] EXCEPT !.nexuses = @ \cup {spec.uuid}]
            ELSE replicas[r]]
    ELSE replicas

on_create_set_owners(owner, spec, ok) ==
    IF ok /\ owner # NoVolume
    THEN [r \in Replicas |->
            IF r \in get_volume_replicas(owner) /\ r \in spec.children
            THEN [replicas[r] EXCEPT !.nexuses = @ \cup {spec.uuid}]
            ELSE replicas[r]]
    ELSE replicas

\* on_delete_disown_replicas dropping every nexus owner of the children
on_delete_disown_replicas_all(spec) ==
    [r \in Replicas |->
        IF r \in spec.children /\ get_replica(r)
        THEN [replicas[r] EXCEPT !.nexuses = {}]
        ELSE replicas[r]]

on_delete_disown_replicas(spec) ==
    [r \in Replicas |->
        IF r \in spec.children /\ get_replica(r)
        THEN [replicas[r] EXCEPT !.nexuses = @ \ {spec.uuid}]
        ELSE replicas[r]]

on_add_own_replica(n, r, ok) ==
    IF ok /\ get_replica(r) THEN add_owner(replicas, r, n) ELSE replicas

\* on_remove_disown_replica disowning the replica from its volume as well
on_remove_disown_replica_volume(n, r, ok) ==
    IF ok /\ get_replica(r)
    THEN [replicas EXCEPT ![r].nexuses = @ \ {n}, ![r].volume = NoVolume]
    ELSE replicas

on_remove_disown_replica(n, r, ok) ==
    IF ok /\ get_replica(r) THEN disown_nexus(replicas, r, n) ELSE replicas

\* ------------------------------------------------------------ spec store
get_nexus(n) == nexuses[n]

remove_nexus(n) == [nexuses EXCEPT ![n] = NoHandle]

\* get_created_nexuses: the specs of the store whose status is created() or
\* deleting()
get_created_nexuses ==
    {h \in {nexuses[n] : n \in NexusIds} \ {NoHandle} :
        specs[h].status = "Created" \/ specs[h].status = "Deleting"}

\* remove_spec that leaves the spec in the store
remove_spec_kept(h) == nexuses

\* GuardedOperationsHelper::remove_spec for OperationGuardArc<NexusSpec>
remove_spec(h) == remove_nexus(specs[h].uuid)

\* get_or_create_nexus inserting the request's spec whether or not the id
\* has one (the last writer wins)
get_or_create_nexus_overwrite(p, n, children, owner) ==
    /\ proc[p].pc = "idle"
    /\ FreeHandles # {}
    /\ nexuses' = [nexuses EXCEPT ![n] = NewHandle]
    /\ proc' = [proc EXCEPT ![p] =
                  [IdleProc EXCEPT !.kind = "create", !.nexus = n, !.owner = owner,
                                   !.pc = "guard_wait", !.hnd = NewHandle]]
    /\ specs' = Collect([specs EXCEPT ![NewHandle] = NexusSpecFrom(n, children, owner)],
                        nexuses', proc', rec)
    /\ UNCHANGED <<guards, pstore, live, replicas, rec>>

\* get_or_create_nexus: under the store write lock, the existing spec wins
get_or_create_nexus(p, n, children, owner) ==
    /\ proc[p].pc = "idle"
    /\ LET q == [IdleProc EXCEPT !.kind = "create", !.nexus = n, !.owner = owner,
                                 !.pc = "guard_wait"]
       IN IF get_nexus(n) # NoHandle
          THEN /\ proc' = [proc EXCEPT ![p] = [q EXCEPT !.hnd = get_nexus(n)]]
               /\ UNCHANGED <<nexuses, specs>>
          ELSE /\ FreeHandles # {}
               /\ nexuses' = [nexuses EXCEPT ![n] = NewHandle]
               /\ specs' = [specs EXCEPT ![NewHandle] = NexusSpecFrom(n, children, owner)]
               /\ proc' = [proc EXCEPT ![p] = [q EXCEPT !.hnd = NewHandle]]
    /\ UNCHANGED <<guards, pstore, live, replicas, rec>>

\* nexus(): NexusNotFound when the id is not in the store, else wait for the guard
nexus(p, kind, n, r) ==
    /\ proc[p].pc = "idle"
    /\ kind \in {"add", "remove"}
    /\ LET q == [IdleProc EXCEPT !.kind = kind, !.nexus = n, !.child = r]
       IN proc' = [proc EXCEPT ![p] =
                IF get_nexus(n) = NoHandle
                THEN Outcome(kind, "NexusNotFound")
                ELSE [q EXCEPT !.pc = "guard_wait", !.hnd = get_nexus(n)]]
    /\ UNCHANGED <<nexuses, specs, guards, pstore, live, replicas, rec>>

\* nexus_opt answering an absent id the way nexus() does
nexus_opt_not_found(p, n) ==
    /\ proc[p].pc = "idle"
    /\ LET q == [IdleProc EXCEPT !.kind = "destroy", !.nexus = n]
       IN proc' = [proc EXCEPT ![p] =
                IF get_nexus(n) = NoHandle
                THEN Outcome("destroy", "NexusNotFound")
                ELSE [q EXCEPT !.pc = "guard_wait", !.hnd = get_nexus(n)]]
    /\ UNCHANGED <<nexuses, specs, guards, pstore, live, replicas, rec>>

\* nexus_opt(): Ok(None) when the id is not in the store
nexus_opt(p, n) ==
    /\ proc[p].pc = "idle"
    /\ LET q == [IdleProc EXCEPT !.kind = "destroy", !.nexus = n]
       IN proc' = [proc EXCEPT ![p] =
                IF get_nexus(n) = NoHandle
                THEN [q EXCEPT !.pc = "start"]
                ELSE [q EXCEPT !.pc = "guard_wait", !.hnd = get_nexus(n)]]
    /\ UNCHANGED <<nexuses, specs, guards, pstore, live, replicas, rec>>

\* operation_guard_wait: retries until the guard of the handle is free; while
\* it is held the wait may run out of tries, and the request fails (the `?`)
operation_guard_wait(p) ==
    /\ proc[p].pc = "guard_wait"
    /\ IF operation_guard_free(proc[p].hnd)
       THEN /\ guards' = Acquire(proc[p].hnd, p)
            /\ proc' = [proc EXCEPT ![p].pc = "start"]
            /\ UNCHANGED specs
       ELSE /\ proc' = Finish(p, "Conflict")
            /\ specs' = Collect(specs, nexuses, proc', rec)
            /\ UNCHANGED guards
    /\ UNCHANGED <<nexuses, pstore, live, replicas, rec>>

\* nexus() handing out the guard without waiting for it to be free
nexus_wait_unguarded(p) ==
    /\ proc[p].kind \in {"add", "remove"}
    /\ proc[p].pc = "guard_wait"
    /\ guards' = Acquire(proc[p].hnd, p)
    /\ proc' = [proc EXCEPT ![p].pc = "start"]
    /\ UNCHANGED <<nexuses, specs, pstore, live, replicas, rec>>

\* nexus() waiting for the guard without ever giving up
nexus_wait_blocking(p) ==
    /\ proc[p].kind \in {"add", "remove"}
    /\ proc[p].pc = "guard_wait"
    /\ operation_guard_free(proc[p].hnd)
    /\ guards' = Acquire(proc[p].hnd, p)
    /\ proc' = [proc EXCEPT ![p].pc = "start"]
    /\ UNCHANGED <<nexuses, specs, pstore, live, replicas, rec>>

nexus_wait(p) ==
    /\ proc[p].kind \in {"add", "remove"}
    /\ operation_guard_wait(p)

nexus_opt_wait(p) ==
    /\ proc[p].kind = "destroy"
    /\ operation_guard_wait(p)

create_wait(p) ==
    /\ proc[p].kind = "create"
    /\ operation_guard_wait(p)

\* --------------------------------------------------------- update requests
\* the request returns (also early, with `?`): the caller drops its guard
Returns(p, err, sp, nx) ==
    /\ guards' = Release(proc[p].hnd, p)
    /\ proc' = Finish(p, err)
    /\ nexuses' = nx
    /\ specs' = Collect(sp, nx, proc', rec)

\* add_nexus_replica / remove_nexus_replica going on to the ownership hook
\* of the operation when start_update has rejected it
StartUpdate_hooked(p, op, node_ok) ==
    LET h == proc[p].hnd
        n == proc[p].nexus
        st == start_update(specs[h], live[n], op)
        err == IF ~node_ok THEN "NodeNotFound"
               ELSE IF h = NoHandle THEN "NexusNotFound"
               ELSE IF ~live[n].exists THEN "NexusNotFound"
               ELSE st.err
    IN IF err # "Ok"
       THEN /\ Returns(p, err, specs, nexuses)
            /\ replicas' = IF op.op = "AddChild"
                           THEN on_add_own_replica(n, op.child, TRUE)
                           ELSE on_remove_disown_replica(n, op.child, TRUE)
            /\ UNCHANGED <<pstore, live, rec>>
       ELSE /\ specs' = [specs EXCEPT ![h] = st.spec]
            /\ proc' = [proc EXCEPT ![p].pc = "dispatch", ![p].clone = specs[h]]
            /\ UNCHANGED <<nexuses, guards, pstore, live, replicas, rec>>

\* the steps of add_nexus_replica / remove_nexus_replica up to start_update
StartUpdate(p, op, node_ok) ==
    LET h == proc[p].hnd
        n == proc[p].nexus
        st == start_update(specs[h], live[n], op)
        err == IF ~node_ok THEN "NodeNotFound"
               ELSE IF h = NoHandle THEN "NexusNotFound"
               ELSE IF ~live[n].exists THEN "NexusNotFound"
               ELSE st.err
    IN IF err # "Ok"
       THEN /\ Returns(p, err, specs, nexuses)
            /\ UNCHANGED <<pstore, live, replicas, rec>>
       ELSE /\ specs' = [specs EXCEPT ![h] = st.spec]
            /\ proc' = [proc EXCEPT ![p].pc = "dispatch", ![p].clone = specs[h]]
            /\ UNCHANGED <<nexuses, guards, pstore, live, replicas, rec>>

\* complete_update with a failed result: the spec goes back to the snapshot,
\* the store is not written, the error is returned
complete_update_failed(p) ==
    /\ Returns(p, "RemoteError", [specs EXCEPT ![proc[p].hnd] = proc[p].clone], nexuses)
    /\ UNCHANGED <<pstore, rec>>

\* the remote call returned Ok: complete_update goes on to write the store
dispatched(p) ==
    /\ proc' = [proc EXCEPT ![p].pc = "complete"]
    /\ UNCHANGED <<nexuses, specs, guards, pstore, rec>>

add_nexus_replica_start(p) ==
    /\ proc[p].pc = "start"
    /\ proc[p].kind = "add"
    /\ \E node_ok \in BOOLEAN :
          StartUpdate(p, Op("AddChild", proc[p].child), node_ok)

\* add_nexus_replica handing complete_update the spec as it is now (with the
\* operation recorded) in place of the snapshot start_update returned
add_nexus_replica_dispatch_wrong_snapshot(p) ==
    /\ proc[p].pc = "dispatch"
    /\ proc[p].kind = "add"
    /\ \E ok \in BOOLEAN :
          /\ live' = IF ok
                     THEN [live EXCEPT ![proc[p].nexus].children = @ \cup {proc[p].child}]
                     ELSE live
          /\ replicas' = on_add_own_replica(proc[p].nexus, proc[p].child, ok)
          /\ IF ok THEN dispatched(p)
             ELSE /\ Returns(p, "RemoteError", specs, nexuses)
                  /\ UNCHANGED <<pstore, rec>>

\* add_nexus_replica that never hands a failed result to complete_update
\* (waits on the node for ever), keeping its guard
add_nexus_replica_dispatch_parked(p) ==
    /\ proc[p].pc = "dispatch"
    /\ proc[p].kind = "add"
    /\ \E ok \in BOOLEAN :
          /\ live' = IF ok
                     THEN [live EXCEPT ![proc[p].nexus].children = @ \cup {proc[p].child}]
                     ELSE live
          /\ replicas' = on_add_own_replica(proc[p].nexus, proc[p].child, ok)
          /\ IF ok THEN dispatched(p)
             ELSE /\ proc' = [proc EXCEPT ![p].pc = "parked"]
                  /\ UNCHANGED <<nexuses, specs, guards, pstore, rec>>

\* node.add_child, then on_add_own_replica
add_nexus_replica_dispatch(p) ==
    /\ proc[p].pc = "dispatch"
    /\ proc[p].kind = "add"
    /\ \E ok \in BOOLEAN :
          /\ live' = IF ok
                     THEN [live EXCEPT ![proc[p].nexus].children = @ \cup {proc[p].child}]
                     ELSE live
          /\ replicas' = on_add_own_replica(proc[p].nexus, proc[p].child, ok)
          /\ IF ok THEN dispatched(p) ELSE complete_update_failed(p)

\* remove_nexus_replica recording the operation of add_nexus_replica
remove_nexus_replica_start_addchild(p) ==
    /\ proc[p].pc = "start"
    /\ proc[p].kind = "remove"
    /\ \E node_ok \in BOOLEAN :
          StartUpdate(p, Op("AddChild", proc[p].child), node_ok)

remove_nexus_replica_start(p) ==
    /\ proc[p].pc = "start"
    /\ proc[p].kind = "remove"
    /\ \E node_ok \in BOOLEAN :
          StartUpdate(p, Op("RemoveChild", proc[p].child), node_ok)

\* node.remove_child, then on_remove_disown_replica
remove_nexus_replica_dispatch(p) ==
    /\ proc[p].pc = "dispatch"
    /\ proc[p].kind = "remove"
    /\ \E ok \in BOOLEAN :
          /\ live' = IF ok
                     THEN [live EXCEPT ![proc[p].nexus].children = @ \ {proc[p].child}]
                     ELSE live
          /\ replicas' = on_remove_disown_replica(proc[p].nexus, proc[p].child, ok)
          /\ IF ok THEN dispatched(p) ELSE complete_update_failed(p)

\* complete_update with a successful result, first half: the committed spec
\* is written to the persistent store (a destroy deletes it).  A failed write
\* leaves the operation pending with its result recorded, and is returned.
complete_update_store(p) ==
    LET h == proc[p].hnd
        n == proc[p].nexus
        committed == commit_op(specs[h])
    IN /\ proc[p].pc = "complete"
       /\ \E stored \in BOOLEAN :
            IF stored
            THEN /\ pstore' = IF committed.status = "Deleted"
                              THEN [pstore EXCEPT ![n] = NotStored]
                              ELSE [pstore EXCEPT ![n] = Persisted(committed)]
                 /\ proc' = [proc EXCEPT ![p].pc = "commit"]
                 /\ UNCHANGED <<nexuses, specs, guards>>
            ELSE /\ Returns(p, "StoreError",
                            [specs EXCEPT ![h] = set_op_result(specs[h], TRUE)], nexuses)
                 /\ UNCHANGED pstore
       /\ UNCHANGED <<live, replicas, rec>>

\* second half: the in-memory spec follows the store, and a Deleted spec is
\* removed from the spec store
complete_update_finish(p) ==
    LET h == proc[p].hnd
        committed == commit_op(specs[h])
    IN /\ proc[p].pc = "commit"
       /\ Returns(p, "Ok", [specs EXCEPT ![h] = committed],
                  IF committed.status = "Deleted" THEN remove_spec(h) ELSE nexuses)
       /\ UNCHANGED <<pstore, live, replicas, rec>>

complete_update(p) ==
    \/ complete_update_store(p)
    \/ complete_update_finish(p)

\* add_nexus_replica whose failed store write is answered by reverting the
\* spec to the snapshot
add_nexus_replica_complete_reverting(p) ==
    /\ proc[p].kind = "add"
    /\ \/ complete_update_finish(p)
       \/ /\ proc[p].pc = "complete"
          /\ \E stored \in BOOLEAN :
                IF stored
                THEN /\ pstore' = [pstore EXCEPT ![proc[p].nexus] =
                                     Persisted(commit_op(specs[proc[p].hnd]))]
                     /\ proc' = [proc EXCEPT ![p].pc = "commit"]
                     /\ UNCHANGED <<nexuses, specs, guards>>
                ELSE /\ Returns(p, "StoreError",
                                [specs EXCEPT ![proc[p].hnd] = proc[p].clone], nexuses)
                     /\ UNCHANGED pstore
          /\ UNCHANGED <<live, replicas, rec>>

\* add_nexus_replica committing the operation in memory and returning
\* without the store write
add_nexus_replica_complete_unpersisted(p) ==
    /\ proc[p].kind = "add"
    /\ proc[p].pc = "complete"
    /\ Returns(p, "Ok", [specs EXCEPT ![proc[p].hnd] = commit_op(@)], nexuses)
    /\ UNCHANGED <<pstore, live, replicas, rec>>

add_nexus_replica_complete(p) ==
    /\ proc[p].kind = "add"
    /\ complete_update(p)

remove_nexus_replica_complete(p) ==
    /\ proc[p].kind = "remove"
    /\ complete_update(p)

\* ------------------------------------------------ remove_nexus_child_by_uri
\* ReplicaSpec disowned by its volume (the result of the store write that
\* follows is dropped by the caller)
disown_volume_replica(rs, r) == [rs EXCEPT ![r].volume = NoVolume]

\* disown_and_destroy_replica: the replica is disowned and its spec destroyed;
\* a failure leaves the spec in the store, disowned or not
disown_and_destroy_replica(rs, r, ok, disowned) ==
    IF ok THEN [rs EXCEPT ![r] = NoReplica]
    ELSE IF disowned THEN disown_volume_replica(rs, r)
    ELSE rs

\* the caller of remove_nexus_child_by_uri: it brings the guard of the nexus
remove_nexus_child_by_uri_request(p, n, r, destroy_replica) ==
    /\ proc[p].pc = "idle"
    /\ LET q == [IdleProc EXCEPT !.kind = "remove_uri", !.nexus = n, !.child = r,
                                 !.destroy_replica = destroy_replica]
       IN proc' = [proc EXCEPT ![p] =
                IF get_nexus(n) = NoHandle
                THEN Outcome("remove_uri", "NexusNotFound")
                ELSE [q EXCEPT !.pc = "guard_wait", !.hnd = get_nexus(n)]]
    /\ UNCHANGED <<nexuses, specs, guards, pstore, live, replicas, rec>>

remove_nexus_child_by_uri_wait(p) ==
    /\ proc[p].kind = "remove_uri"
    /\ operation_guard_wait(p)

\* the child is looked up in the spec's children; either way a RemoveChild
\* is started (remove_nexus_replica, or remove_child for a bare uri)
remove_nexus_child_by_uri_start(p) ==
    /\ proc[p].pc = "start"
    /\ proc[p].kind = "remove_uri"
    /\ \E node_ok \in BOOLEAN :
          StartUpdate(p, Op("RemoveChild", proc[p].child), node_ok)

\* node.remove_child; a child found as a replica is disowned from the nexus
remove_nexus_child_by_uri_dispatch(p) ==
    /\ proc[p].pc = "dispatch"
    /\ proc[p].kind = "remove_uri"
    /\ \E ok \in BOOLEAN :
          /\ live' = IF ok
                     THEN [live EXCEPT ![proc[p].nexus].children = @ \ {proc[p].child}]
                     ELSE live
          /\ replicas' = IF proc[p].child \in proc[p].clone.children
                         THEN on_remove_disown_replica(proc[p].nexus, proc[p].child, ok)
                         ELSE replicas
          /\ IF ok THEN dispatched(p) ELSE complete_update_failed(p)

\* complete_update; `Ok(_) if destroy_replica` goes on to the replica, any
\* other result is returned as it is
remove_nexus_child_by_uri_complete(p) ==
    /\ proc[p].kind = "remove_uri"
    /\ \/ complete_update_store(p)
       \/ /\ proc[p].pc = "commit"
          /\ IF proc[p].destroy_replica /\ proc[p].child \in proc[p].clone.children
             THEN /\ specs' = [specs EXCEPT ![proc[p].hnd] = commit_op(@)]
                  /\ proc' = [proc EXCEPT ![p].pc = "destroy_replica"]
                  /\ UNCHANGED <<nexuses, guards, pstore, live, replicas, rec>>
             ELSE complete_update_finish(p)

\* get_replica (ReplicaNotFound when it has no spec), then get_pool_node:
\* Some(node) or None
remove_nexus_child_by_uri_get_pool_node(p) ==
    /\ proc[p].pc = "destroy_replica"
    /\ IF ~get_replica(proc[p].child)
       THEN Returns(p, "ReplicaNotFound", specs, nexuses)
       ELSE /\ \E node \in BOOLEAN :
                 proc' = [proc EXCEPT ![p].pc = IF node THEN "destroy_node"
                                                ELSE "disown_volume"]
            /\ UNCHANGED <<nexuses, specs, guards>>
    /\ UNCHANGED <<pstore, live, replicas, rec>>

\* Some(node) with the error of disown_and_destroy_replica returned to the
\* caller
remove_nexus_child_by_uri_destroy_failing(p) ==
    /\ proc[p].pc = "destroy_node"
    /\ \E ok \in BOOLEAN, disowned \in BOOLEAN :
          /\ replicas' = disown_and_destroy_replica(replicas, proc[p].child, ok, disowned)
          /\ Returns(p, IF ok THEN "Ok" ELSE "RemoteError", specs, nexuses)
    /\ UNCHANGED <<pstore, live, rec>>

\* Some(node): disown_and_destroy_replica, its error only logged; Ok(())
remove_nexus_child_by_uri_destroy(p) ==
    /\ proc[p].pc = "destroy_node"
    /\ \E ok \in BOOLEAN, disowned \in BOOLEAN :
          replicas' = disown_and_destroy_replica(replicas, proc[p].child, ok, disowned)
    /\ Returns(p, "Ok", specs, nexuses)
    /\ UNCHANGED <<pstore, live, rec>>

\* None handled like Some(node): the replica is destroyed although its node
\* was not found
remove_nexus_child_by_uri_disown_destroying(p) ==
    /\ proc[p].pc = "disown_volume"
    /\ replicas' = disown_and_destroy_replica(replicas, proc[p].child, TRUE, TRUE)
    /\ Returns(p, "Ok", specs, nexuses)
    /\ UNCHANGED <<pstore, live, rec>>

\* None: `let _ = disown_volume_replica(..)`, then Ok(())
remove_nexus_child_by_uri_disown(p) ==
    /\ proc[p].pc = "disown_volume"
    /\ replicas' = disown_volume_replica(replicas, proc[p].child)
    /\ Returns(p, "Ok", specs, nexuses)
    /\ UNCHANGED <<pstore, live, rec>>

\* ---------------------------------------------------------- create request
create_nexus_start(p) ==
    /\ proc[p].pc = "start"
    /\ proc[p].kind = "create"
    /\ LET h == proc[p].hnd
           st == start_create(specs[h])
       IN IF st.err # "Ok"
          THEN Returns(p, st.err, specs, nexuses)
          ELSE /\ specs' = [specs EXCEPT ![h] = st.spec]
               /\ proc' = [proc EXCEPT ![p].pc = "dispatch", ![p].clone = specs[h]]
               /\ UNCHANGED <<nexuses, guards>>
    /\ UNCHANGED <<pstore, live, replicas, rec>>

\* node.create_nexus, then on_create_set_owners
create_nexus_dispatch(p) ==
    /\ proc[p].pc = "dispatch"
    /\ proc[p].kind = "create"
    /\ \E ok \in BOOLEAN :
          LET spec == specs[proc[p].hnd] IN
          /\ live' = IF ok
                     THEN [live EXCEPT ![proc[p].nexus] =
                             [exists |-> TRUE, children |-> spec.children,
                              share |-> FALSE]]
                     ELSE live
          /\ replicas' = on_create_set_owners(proc[p].owner, spec, ok)
          /\ IF ok THEN dispatched(p) ELSE complete_update_failed(p)

complete_create(p) ==
    /\ proc[p].kind = "create"
    /\ complete_update(p)

\* --------------------------------------------------------- destroy request
\* no spec for the id, or a spec already Deleted: nothing to do, success
destroy_nexus_start(p) ==
    /\ proc[p].pc = "start"
    /\ proc[p].kind = "destroy"
    /\ LET h == proc[p].hnd IN
       IF h = NoHandle
       THEN Returns(p, "Ok", specs, nexuses)
       ELSE LET st == start_destroy(specs[h]) IN
            IF st.err = "AlreadyDeleted"
            THEN Returns(p, "Ok", specs, nexuses)
            ELSE IF st.err # "Ok"
            THEN Returns(p, st.err, specs, nexuses)
            ELSE /\ specs' = [specs EXCEPT ![h] = st.spec]
                 /\ proc' = [proc EXCEPT ![p].pc = "dispatch", ![p].clone = specs[h]]
                 /\ UNCHANGED <<nexuses, guards>>
    /\ UNCHANGED <<pstore, live, replicas, rec>>

\* node.destroy_nexus, then on_delete_disown_replicas
destroy_nexus_dispatch(p) ==
    /\ proc[p].pc = "dispatch"
    /\ proc[p].kind = "destroy"
    /\ \E ok \in BOOLEAN :
          /\ live' = IF ok THEN [live EXCEPT ![proc[p].nexus] = NoState] ELSE live
          /\ replicas' = IF ok THEN on_delete_disown_replicas(specs[proc[p].hnd])
                         ELSE replicas
          /\ IF ok THEN dispatched(p) ELSE complete_update_failed(p)

complete_destroy(p) ==
    /\ proc[p].kind = "destroy"
    /\ complete_update(p)

\* ------------------------------------------------------------ cancellation
\* The caller drops the request at an await while it holds the guard: the
\* guard is dropped with it, and an operation already started counts as failed.
Abandon(p) ==
    /\ proc[p].pc \in {"start", "dispatch", "complete"}
    /\ proc[p].hnd # NoHandle
    /\ Returns(p, "Cancelled",
               IF proc[p].pc = "start" THEN specs
               ELSE [specs EXCEPT ![proc[p].hnd] = proc[p].clone], nexuses)
    /\ UNCHANGED <<pstore, live, replicas, rec>>

\* the caller has taken the outcome
Return(p) ==
    /\ proc[p].pc = "done"
    /\ proc' = [proc EXCEPT ![p] = IdleProc]
    /\ UNCHANGED <<nexuses, specs, guards, pstore, live, replicas, rec>>

\* --------------------------------------------------------------- reconciler
\* handle_incomplete_ops: an operation whose remote action succeeded is
\* completed (store write, then commit), any other one is reverted; a failed
\* store write leaves the spec dirty.
handle_incomplete_ops(spec, stored) ==
    IF ~pending_op(spec)
    THEN [spec |-> spec, handled |-> TRUE, write |-> FALSE]
    ELSE IF spec.operation.result = "Ok"
    THEN IF stored
         THEN [spec |-> commit_op(spec), handled |-> TRUE, write |-> TRUE]
         ELSE [spec |-> spec, handled |-> FALSE, write |-> FALSE]
    ELSE [spec |-> clear_op(spec), handled |-> TRUE, write |-> FALSE]

\* the pass goes on to the next handle, or returns pending_ops
NextNexus(r) ==
    IF r.todo = {}
    THEN [IdleRec EXCEPT !.pending_ops = observe /\ r.pending_ops,
                         !.skipped = observe /\ r.skipped]
    ELSE r

\* get_nexuses(): the handles in the store when the pass starts
reconcile_dirty_nexuses_begin ==
    /\ rec.pc = "idle"
    /\ rec' = NextNexus([pc |-> "scan",
                         todo |-> {nexuses[n] : n \in NexusIds} \ {NoHandle},
                         cur |-> NoHandle, pending_ops |-> FALSE,
                         skipped |-> FALSE])
    /\ UNCHANGED <<nexuses, specs, guards, pstore, live, replicas, proc>>

\* nexus.operation_guard() that waits for a held guard to be released
reconcile_dirty_nexuses_guard_waiting(h) ==
    /\ rec.pc = "scan"
    /\ h \in rec.todo
    /\ operation_guard_free(h)
    /\ guards' = Acquire(h, Reconciler)
    /\ rec' = [rec EXCEPT !.pc = "hold", !.cur = h, !.todo = @ \ {h}]
    /\ specs' = Collect(specs, nexuses, proc, rec')
    /\ UNCHANGED <<nexuses, pstore, live, replicas, proc>>

\* nexus.operation_guard(): try once, skip the spec when the guard is held
\* (skipped notes, for the caller that observes the pass, that the Err arm
\* of the `if let` was taken)
reconcile_dirty_nexuses_guard(h) ==
    /\ rec.pc = "scan"
    /\ h \in rec.todo
    /\ IF operation_guard_free(h)
       THEN /\ guards' = Acquire(h, Reconciler)
            /\ rec' = [rec EXCEPT !.pc = "hold", !.cur = h, !.todo = @ \ {h}]
       ELSE /\ rec' = NextNexus([rec EXCEPT !.todo = @ \ {h},
                                             !.skipped = TRUE])
            /\ UNCHANGED guards
    /\ specs' = Collect(specs, nexuses, proc, rec')
    /\ UNCHANGED <<nexuses, pstore, live, replicas, proc>>

\* the pass not recording that handle_incomplete_ops returned false
reconcile_dirty_nexuses_handle_silent ==
    /\ rec.pc = "hold"
    /\ \E stored \in BOOLEAN :
          LET h == rec.cur
              r == handle_incomplete_ops(specs[h], stored)
              n == specs[h].uuid
          IN /\ pstore' = IF ~r.write THEN pstore
                          ELSE IF r.spec.status = "Deleted"
                          THEN [pstore EXCEPT ![n] = NotStored]
                          ELSE [pstore EXCEPT ![n] = Persisted(r.spec)]
             /\ nexuses' = IF r.write /\ r.spec.status = "Deleted"
                           THEN remove_spec(h) ELSE nexuses
             /\ guards' = Release(h, Reconciler)
             /\ rec' = NextNexus([rec EXCEPT !.pc = "scan", !.cur = NoHandle])
             /\ specs' = Collect([specs EXCEPT ![h] = r.spec], nexuses', proc, rec')
    /\ UNCHANGED <<live, replicas, proc>>

\* the pass taking the guard and dropping it without handle_incomplete_ops
reconcile_dirty_nexuses_handle_dropped ==
    /\ rec.pc = "hold"
    /\ guards' = Release(rec.cur, Reconciler)
    /\ rec' = NextNexus([rec EXCEPT !.pc = "scan", !.cur = NoHandle])
    /\ specs' = Collect(specs, nexuses, proc, rec')
    /\ UNCHANGED <<nexuses, pstore, live, replicas, proc>>

reconcile_dirty_nexuses_handle ==
    /\ rec.pc = "hold"
    /\ \E stored \in BOOLEAN :
          LET h == rec.cur
              r == handle_incomplete_ops(specs[h], stored)
              n == specs[h].uuid
          IN /\ pstore' = IF ~r.write THEN pstore
                          ELSE IF r.spec.status = "Deleted"
                          THEN [pstore EXCEPT ![n] = NotStored]
                          ELSE [pstore EXCEPT ![n] = Persisted(r.spec)]
             /\ nexuses' = IF r.write /\ r.spec.status = "Deleted"
                           THEN remove_spec(h) ELSE nexuses
             /\ guards' = Release(h, Reconciler)
             /\ rec' = NextNexus([rec EXCEPT !.pc = "scan", !.cur = NoHandle,
                                             !.pending_ops = @ \/ ~r.handled])
             /\ specs' = Collect([specs EXCEPT ![h] = r.spec], nexuses', proc, rec')
    /\ UNCHANGED <<live, replicas, proc>>

\* One step of a reconciler pass.
reconcile_dirty_nexuses ==
    \/ reconcile_dirty_nexuses_begin
    \/ \E h \in Handles : reconcile_dirty_nexuses_guard(h)
    \/ reconcile_dirty_nexuses_handle

\* the pass leaves the spec whose guard it holds without a pending operation
\* (handle_incomplete_ops returned true)
reconcile_dirty_nexuses_handled ==
    /\ reconcile_dirty_nexuses_handle
    /\ ~dirty(specs'[rec.cur])

\* ------------------------------------------------------------ specification
InitStore ==
    /\ nexuses = [n \in NexusIds |-> NoHandle]
    /\ specs = [h \in Handles |-> FreeSpec]
    /\ guards = [h \in Handles |-> {}]
    /\ pstore = [n \in NexusIds |-> NotStored]
    /\ live = [n \in NexusIds |-> NoState]
    /\ replicas = [r \in Replicas |->
                      [exists |-> TRUE, volume |-> "v1", nexuses |-> {}]]
    /\ proc = [p \in Procs |-> IdleProc]
    /\ rec = IdleRec

Init ==
    /\ InitStore
    /\ observe = TRUE
    /\ sched = NoSched

Step ==
    \/ \E p \in Procs, n \in NexusIds, c \in SUBSET Replicas,
          o \in CreateOwners : get_or_create_nexus(p, n, c, o) /\ UNCHANGED <<observe, sched>>
    \/ \E p \in Procs, k \in {"add", "remove"}, n \in NexusIds, r \in Replicas :
          nexus(p, k, n, r) /\ UNCHANGED <<observe, sched>>
    \/ \E p \in Procs, n \in NexusIds : nexus_opt(p, n) /\ UNCHANGED <<observe, sched>>
    \/ \E p \in Procs : nexus_wait(p) /\ UNCHANGED <<observe, sched>>
    \/ \E p \in Procs : nexus_opt_wait(p) /\ UNCHANGED <<observe, sched>>
    \/ \E p \in Procs : create_wait(p) /\ UNCHANGED <<observe, sched>>
    \/ \E p \in Procs : add_nexus_replica_start(p) /\ UNCHANGED <<observe, sched>>
    \/ \E p \in Procs : add_nexus_replica_dispatch(p) /\ UNCHANGED <<observe, sched>>
    \/ \E p \in Procs : add_nexus_replica_complete(p) /\ UNCHANGED <<observe, sched>>
    \/ \E p \in Procs : remove_nexus_replica_start(p) /\ UNCHANGED <<observe, sched>>
    \/ \E p \in Procs : remove_nexus_replica_dispatch(p) /\ UNCHANGED <<observe, sched>>
    \/ \E p \in Procs : remove_nexus_replica_complete(p) /\ UNCHANGED <<observe, sched>>
    \/ \E p \in Procs : create_nexus_start(p) /\ UNCHANGED <<observe, sched>>
    \/ \E p \in Procs : create_nexus_dispatch(p) /\ UNCHANGED <<observe, sched>>
    \/ \E p \in Procs : complete_create(p) /\ UNCHANGED <<observe, sched>>
    \/ \E p \in Procs : destroy_nexus_start(p) /\ UNCHANGED <<observe, sched>>
    \/ \E p \in Procs : destroy_nexus_dispatch(p) /\ UNCHANGED <<observe, sched>>
    \/ \E p \in Procs : complete_destroy(p) /\ UNCHANGED <<observe, sched>>
    \/ \E p \in Procs : Abandon(p) /\ UNCHANGED <<observe, sched>>
    \/ reconcile_dirty_nexuses_begin /\ UNCHANGED <<observe, sched>>
    \/ \E h \in Handles : reconcile_dirty_nexuses_guard(h) /\ UNCHANGED <<observe, sched>>
    \/ reconcile_dirty_nexuses_handle /\ UNCHANGED <<observe, sched>>

Next ==
    \/ Step
    \/ \E p \in Procs : Return(p) /\ UNCHANGED <<observe, sched>>

Spec == Init /\ [][Next]_vars

\* ----------------------------------------------------------------- fairness
\* The same tasks with outcomes not kept.  A task that holds a guard is never
\* blocked: the runtime schedules it, and remote calls and store writes end
\* (a timeout is a failure).
Holders == Procs \cup {Reconciler}

Progress(p) ==
    \/ add_nexus_replica_start(p) \/ add_nexus_replica_dispatch(p)
    \/ add_nexus_replica_complete(p)
    \/ remove_nexus_replica_start(p) \/ remove_nexus_replica_dispatch(p)
    \/ remove_nexus_replica_complete(p)
    \/ create_nexus_start(p) \/ create_nexus_dispatch(p) \/ complete_create(p)
    \/ destroy_nexus_start(p) \/ destroy_nexus_dispatch(p) \/ complete_destroy(p)

FairInit ==
    /\ InitStore
    /\ observe = FALSE
    /\ sched = NoSched

FairSpec ==
    /\ FairInit
    /\ [][Step]_vars
    /\ \A p \in Procs : WF_vars(Progress(p) /\ UNCHANGED <<observe, sched>>)
    /\ WF_vars(reconcile_dirty_nexuses_handle /\ UNCHANGED <<observe, sched>>)

\* the request polls the guard it waits for
guard_wait(p) == nexus_wait(p) \/ nexus_opt_wait(p) \/ create_wait(p)

\* FairSpec with the wait primitive scheduled fairly: a request that waits
\* for a guard is polled again.
WaitSpec ==
    /\ FairInit
    /\ [][Step]_vars
    /\ \A p \in Procs : WF_vars(Progress(p) /\ UNCHANGED <<observe, sched>>)
    /\ \A p \in Procs : WF_vars(guard_wait(p) /\ UNCHANGED <<observe, sched>>)
    /\ WF_vars(reconcile_dirty_nexuses_handle /\ UNCHANGED <<observe, sched>>)

\* ------------------------------------------------------ placement pipeline
Nodes == {"A", "B", "C"}

\* PoolItem: the node of the pool and its free space in bytes
PoolItems == [node : Nodes, free_space : 0..MaxSpace]

\* GetSuitablePoolsContext: the requested size and, through the registry, the
\* nodes that host a data replica of the requesting volume
Contexts == [size : 0..MaxSpace, data_nodes : SUBSET Nodes]

RECURSIVE Lists(_, _)
Lists(S, n) ==
    IF n = 0 THEN {<<>>}
    ELSE Lists(S, n - 1) \cup {Append(l, x) : l \in {m \in Lists(S, n - 1) : Len(m) = n - 1}, x \in S}

Range(list) == {list[i] : i \in 1..Len(list)}

\* registry.specs.get_volume_data_nodes(&request.uuid)
get_volume_data_nodes(request) == request.data_nodes

\* unused_nodes keeping the nodes the volume uses
unused_nodes_used(request, item) == item.node \in get_volume_data_nodes(request)

unused_nodes(request, item) == item.node \notin get_volume_data_nodes(request)

\* enough_free_space accepting a pool that the request fills exactly
enough_free_space_or_equal(request, item) == item.free_space >= request.size

enough_free_space(request, item) == item.free_space > request.size

Ordering == {"Less", "Equal", "Greater"}

\* Ord::cmp of two numbers
cmp(x, y) == IF x < y THEN "Less" ELSE IF x = y THEN "Equal" ELSE "Greater"

\* Ord::cmp of two node ids
node_cmp(x, y) ==
    LET rank == [n \in Nodes |-> CASE n = "A" -> 1 [] n = "B" -> 2 [] n = "C" -> 3]
    IN cmp(rank[x], rank[y])

\* a.pool.cmp(&b.pool): the pools field by field
sort_by_replica_count(a, b) ==
    IF node_cmp(a.node, b.node) # "Equal" THEN node_cmp(a.node, b.node)
    ELSE cmp(a.free_space, b.free_space)

\* filter handing every retained item on twice
RECURSIVE filter_doubling(_, _)
filter_doubling(list, keep) ==
    IF list = <<>> THEN <<>>
    ELSE (IF Head(list) \in keep THEN <<Head(list), Head(list)>> ELSE <<>>)
            \o filter_doubling(Tail(list), keep)

\* ResourceFilter::filter: the items for which the predicate is true, in the
\* order of the list (keep: the items the predicate accepts)
RECURSIVE filter(_, _)
filter(list, keep) ==
    IF list = <<>> THEN <<>>
    ELSE (IF Head(list) \in keep THEN <<Head(list)>> ELSE <<>>)
            \o filter(Tail(list), keep)

\* x put into a sorted list behind every item that is not Greater than it
RECURSIVE insert(_, _, _)
insert(x, list, ord) ==
    IF list = <<>> THEN <<x>>
    ELSE IF ord[x, Head(list)] = "Less" THEN <<x>> \o list
    ELSE <<Head(list)>> \o insert(x, Tail(list), ord)

\* ResourceFilter::sort: a stable sort by the comparator (ord: its verdict on
\* every pair of items)
RECURSIVE sort(_, _)
sort(list, ord) ==
    IF list = <<>> THEN <<>>
    ELSE insert(list[Len(list)], sort(SubSeq(list, 1, Len(list) - 1), ord), ord)

\* one combinator applied to the list the pipeline has reached
Pipeline(op, out) ==
    /\ sched.op \in {"start", "filter", "unused_nodes", "enough_free_space", "sort"}
    /\ sched.steps < MaxSteps
    /\ sched' = [sched EXCEPT !.op = op, !.list = sched.out, !.out = out,
                              !.steps = @ + 1]
    /\ UNCHANGED <<nexuses, specs, guards, pstore, live, replicas, proc, rec, observe>>

\* filter with any predicate
filter_any ==
    \E keep \in SUBSET Range(sched.out) :
       Pipeline("filter", filter(sched.out, keep))

filter_unused_nodes ==
    Pipeline("unused_nodes",
             filter(sched.out, {i \in PoolItems : unused_nodes(sched.request, i)}))

filter_enough_free_space ==
    Pipeline("enough_free_space",
             filter(sched.out, {i \in PoolItems : enough_free_space(sched.request, i)}))

sort_pools ==
    Pipeline("sort",
             sort(sched.out, [a, b \in PoolItems |-> sort_by_replica_count(a, b)]))

PoolInit ==
    /\ InitStore
    /\ observe = TRUE
    /\ \E request \in Contexts, list \in Lists(PoolItems, MaxLen) :
          sched = [op |-> "start", request |-> request, list |-> list,
                   out |-> list, steps |-> 0]

PoolNext ==
    \/ filter_any
    \/ filter_unused_nodes
    \/ filter_enough_free_space
    \/ sort_pools

PoolSpec == PoolInit /\ [][PoolNext]_vars

\* --------------------------------------------------------------- child sort
\* The health states of a nexus child.
ChildStates == {"Unknown", "Online", "Degraded", "Faulted"}

\* The rank of the states that the order relates: Online above Degraded
\* above Faulted.  Unknown is related to itself only.
state_rank(state) ==
    CASE state = "Online" -> 3
      [] state = "Degraded" -> 2
      [] state = "Faulted" -> 1
      [] OTHER -> 0

\* childa.state.partial_cmp(&childb.state): "None" where the states are
\* incomparable.
partial_cmp(x, y) ==
    IF x = y THEN "Equal"
    ELSE IF x = "Unknown" \/ y = "Unknown" THEN "None"
    ELSE cmp(state_rank(x), state_rank(y))

\* A nexus child as the registry reports it.
Children == [state : ChildStates, rebuild_progress : 0..MaxProgress]

\* A replica candidate: status is the Option of its nexus child, <<>> for
\* a replica that is part of no nexus, and shared is spec().share.shared().
ReplicaItems == [status : {<<>>} \cup {<<child>> : child \in Children},
                 shared : BOOLEAN]

\* sort_by_child with the replica that is part of no nexus ordered first
sort_by_child_unattached_first(a, b) ==
    IF a.status = <<>>
    THEN IF b.status = <<>> THEN "Equal" ELSE "Less"
    ELSE IF b.status = <<>>
         THEN "Greater"
         ELSE LET childa == a.status[1]
                  childb == b.status[1]
                  ord == partial_cmp(childa.state, childb.state)
              IN  IF ord = "None"
                  THEN cmp(childa.rebuild_progress, childb.rebuild_progress)
                  ELSE ord

\* ChildSorters::sort_by_child
sort_by_child(a, b) ==
    IF a.status = <<>>
    THEN IF b.status = <<>> THEN "Equal" ELSE "Greater"
    ELSE IF b.status = <<>>
         THEN "Less"
         ELSE LET childa == a.status[1]
                  childb == b.status[1]
                  ord == partial_cmp(childa.state, childb.state)
              IN  IF ord = "None"
                  THEN cmp(childa.rebuild_progress, childb.rebuild_progress)
                  ELSE ord

\* ChildSorters::sort with the local replica ordered first
ChildSorters_sort_local_first(a, b) ==
    LET ord == sort_by_child(a, b)
    IN  IF ord = "Equal"
        THEN LET childa_is_local == ~a.shared
                 childb_is_local == ~b.shared
             IN  IF childa_is_local = childb_is_local THEN "Equal"
                 ELSE IF childa_is_local THEN "Less"
                 ELSE "Greater"
        ELSE ord

\* ChildSorters::sort
ChildSorters_sort(a, b) ==
    LET ord == sort_by_child(a, b)
    IN  IF ord = "Equal"
        THEN LET childa_is_local == ~a.shared
                 childb_is_local == ~b.shared
             IN  IF childa_is_local = childb_is_local THEN "Equal"
                 ELSE IF childa_is_local THEN "Greater"
                 ELSE "Less"
        ELSE ord

\* The comparator is called on the pairs of three candidates.
compare_children ==
    /\ sched.op = "children"
    /\ sched' = [op |-> "compare", a |-> sched.a, b |-> sched.b, c |-> sched.c,
                 ab |-> ChildSorters_sort(sched.a, sched.b),
                 ba |-> ChildSorters_sort(sched.b, sched.a),
                 bc |-> ChildSorters_sort(sched.b, sched.c),
                 ac |-> ChildSorters_sort(sched.a, sched.c),
                 aa |-> ChildSorters_sort(sched.a, sched.a)]
    /\ UNCHANGED <<nexuses, specs, guards, pstore, live, replicas, proc, rec,
                   observe>>

\* sort(ChildSorters::sort) on the list of the three candidates
sort_children ==
    /\ sched.op = "children"
    /\ sched' = [op |-> "sort_children",
                 a |-> sched.a, b |-> sched.b, c |-> sched.c,
                 list |-> <<sched.a, sched.b, sched.c>>,
                 out |-> sort(<<sched.a, sched.b, sched.c>>,
                              [x, y \in ReplicaItems |->
                                  ChildSorters_sort(x, y)])]
    /\ UNCHANGED <<nexuses, specs, guards, pstore, live, replicas, proc, rec,
                   observe>>

ChildInit ==
    /\ InitStore
    /\ observe = TRUE
    /\ \E a \in ReplicaItems, b \in ReplicaItems, c \in ReplicaItems :
          sched = [op |-> "children", a |-> a, b |-> b, c |-> c]

ChildNext == compare_children \/ sort_children

ChildSpec == ChildInit /\ [][ChildNext]_vars

\* --------------------------------------------------------------- validation
\* start_update_op on its own: one call, on every Created spec without a
\* pending operation, live state and update operation within the bounds.
UpdateKinds == {"share", "unshare", "add", "remove"}

\* the NexusOperation of an update request
NexusOperation(q) ==
    CASE q.kind = "share"   -> Op("Share", NoChild)
      [] q.kind = "unshare" -> Op("Unshare", NoChild)
      [] q.kind = "add"     -> Op("AddChild", q.child)
      [] q.kind = "remove"  -> Op("RemoveChild", q.child)

ValInit ==
    \E c \in SUBSET Replicas, s \in BOOLEAN, o \in Volumes \cup {NoVolume},
       lc \in SUBSET Replicas, ls \in BOOLEAN, k \in UpdateKinds, r \in Replicas :
       LET spec == [uuid |-> "n1", children |-> c, share |-> s, owner |-> o,
                    status |-> "Created", operation |-> NoOp]
       IN /\ nexuses = [n \in NexusIds |-> 1]
          /\ specs = [h \in Handles |-> IF h = 1 THEN spec ELSE FreeSpec]
          /\ guards = [h \in Handles |-> IF h = 1 THEN {1} ELSE {}]
          /\ pstore = [n \in NexusIds |-> Persisted(spec)]
          /\ live = [n \in NexusIds |->
                       [exists |-> TRUE, children |-> lc, share |-> ls]]
          /\ replicas = [x \in Replicas |->
                           [exists |-> TRUE, volume |-> "v1", nexuses |-> {}]]
          /\ proc = [p \in Procs |->
                       IF p = 1
                       THEN [IdleProc EXCEPT !.pc = "start", !.kind = k, !.nexus = "n1",
                                             !.child = IF k \in {"add", "remove"}
                                                       THEN r ELSE NoChild,
                                             !.hnd = 1]
                       ELSE IdleProc]
          /\ rec = IdleRec
          /\ observe = TRUE
          /\ sched = NoSched

\* the call: the verdict is kept next to the request, the spec is left as
\* start_update_op leaves it
start_update_op_call(p) ==
    /\ proc[p].pc = "start"
    /\ proc[p].kind \in UpdateKinds
    /\ LET st == start_update_op(specs[proc[p].hnd], live[proc[p].nexus],
                                 NexusOperation(proc[p]))
       IN /\ specs' = [specs EXCEPT ![proc[p].hnd] = st.spec]
          /\ proc' = [proc EXCEPT ![p].pc = "done", ![p].out = st.err]
    /\ UNCHANGED <<nexuses, guards, pstore, live, replicas, rec, observe, sched>>

ValNext == \E p \in Procs : start_update_op_call(p)

ValSpec == ValInit /\ [][ValNext]_vars

\* ---------------------------------------------------------------- ownership
\* One task and the reconciler, with what varies for ownership: create
\* requests with and without an owning volume, removal by uri, and a replica
\* that may be missing from the store, belong to another volume or have
\* another nexus as owner.
OtherVolume == "v2"

OtherNexus == "n2"

OwnProcs == {1}

ReplicaSpecs ==
    {NoReplica} \cup [exists : {TRUE}, volume : Volumes \cup {OtherVolume, NoVolume},
                      nexuses : SUBSET {OtherNexus}]

OwnInit ==
    /\ nexuses = [n \in NexusIds |-> NoHandle]
    /\ specs = [h \in Handles |-> FreeSpec]
    /\ guards = [h \in Handles |-> {}]
    /\ pstore = [n \in NexusIds |-> NotStored]
    /\ live = [n \in NexusIds |-> NoState]
    /\ replicas \in [Replicas -> ReplicaSpecs]
    /\ proc = [p \in Procs |-> IdleProc]
    /\ rec = IdleRec
    /\ observe = TRUE
    /\ sched = NoSched

OwnStep ==
    \/ \E p \in OwnProcs, n \in NexusIds, c \in SUBSET Replicas,
          o \in Volumes \cup {NoVolume} : get_or_create_nexus(p, n, c, o) /\ UNCHANGED <<observe, sched>>
    \/ \E p \in OwnProcs, k \in {"add", "remove"}, n \in NexusIds, r \in Replicas :
          nexus(p, k, n, r) /\ UNCHANGED <<observe, sched>>
    \/ \E p \in OwnProcs, n \in NexusIds : nexus_opt(p, n) /\ UNCHANGED <<observe, sched>>
    \/ \E p \in OwnProcs, n \in NexusIds, r \in Replicas, d \in BOOLEAN :
          remove_nexus_child_by_uri_request(p, n, r, d) /\ UNCHANGED <<observe, sched>>
    \/ \E p \in OwnProcs : nexus_wait(p) /\ UNCHANGED <<observe, sched>>
    \/ \E p \in OwnProcs : nexus_opt_wait(p) /\ UNCHANGED <<observe, sched>>
    \/ \E p \in OwnProcs : create_wait(p) /\ UNCHANGED <<observe, sched>>
    \/ \E p \in OwnProcs : remove_nexus_child_by_uri_wait(p) /\ UNCHANGED <<observe, sched>>
    \/ \E p \in OwnProcs : add_nexus_replica_start(p) /\ UNCHANGED <<observe, sched>>
    \/ \E p \in OwnProcs : add_nexus_replica_dispatch(p) /\ UNCHANGED <<observe, sched>>
    \/ \E p \in OwnProcs : add_nexus_replica_complete(p) /\ UNCHANGED <<observe, sched>>
    \/ \E p \in OwnProcs : remove_nexus_replica_start(p) /\ UNCHANGED <<observe, sched>>
    \/ \E p \in OwnProcs : remove_nexus_replica_dispatch(p) /\ UNCHANGED <<observe, sched>>
    \/ \E p \in OwnProcs : remove_nexus_replica_complete(p) /\ UNCHANGED <<observe, sched>>
    \/ \E p \in OwnProcs : remove_nexus_child_by_uri_start(p) /\ UNCHANGED <<observe, sched>>
    \/ \E p \in OwnProcs : remove_nexus_child_by_uri_dispatch(p) /\ UNCHANGED <<observe, sched>>
    \/ \E p \in OwnProcs : remove_nexus_child_by_uri_complete(p) /\ UNCHANGED <<observe, sched>>
    \/ \E p \in OwnProcs : remove_nexus_child_by_uri_get_pool_node(p) /\ UNCHANGED <<observe, sched>>
    \/ \E p \in OwnProcs : remove_nexus_child_by_uri_destroy(p) /\ UNCHANGED <<observe, sched>>
    \/ \E p \in OwnProcs : remove_nexus_child_by_uri_disown(p) /\ UNCHANGED <<observe, sched>>
    \/ \E p \in OwnProcs : create_nexus_start(p) /\ UNCHANGED <<observe, sched>>
    \/ \E p \in OwnProcs : create_nexus_dispatch(p) /\ UNCHANGED <<observe, sched>>
    \/ \E p \in OwnProcs : complete_create(p) /\ UNCHANGED <<observe, sched>>
    \/ \E p \in OwnProcs : destroy_nexus_start(p) /\ UNCHANGED <<observe, sched>>
    \/ \E p \in OwnProcs : destroy_nexus_dispatch(p) /\ UNCHANGED <<observe, sched>>
    \/ \E p \in OwnProcs : complete_destroy(p) /\ UNCHANGED <<observe, sched>>
    \/ \E p \in OwnProcs : Return(p) /\ UNCHANGED <<observe, sched>>
    \/ reconcile_dirty_nexuses /\ UNCHANGED <<observe, sched>>

OwnSpec == OwnInit /\ [][OwnStep]_vars

\* Reconciler passes are scheduled again and again (the reconciler's poll
\* loop), and a store write that is retried by the passes does not fail
\* forever.
RetrySpec ==
    /\ FairInit
    /\ [][Step]_vars
    /\ \A p \in Procs : WF_vars(Progress(p) /\ UNCHANGED <<observe, sched>>)
    /\ WF_vars(reconcile_dirty_nexuses /\ UNCHANGED <<observe, sched>>)
    /\ SF_vars(reconcile_dirty_nexuses_handled /\ UNCHANGED <<observe, sched>>)

\* ------------------------------------------------------ operation guards
\* the holders of the guards of every spec object that carries nexus id n
GuardsOf(n) == UNION {guards[h] : h \in {g \in Handles : specs[g].uuid = n}}

\* every spec object has at most one live guard
OneGuardPerSpec == \A h \in Handles : Cardinality(guards[h]) <= 1

\* C1: for every nexus id in the spec store at most one operation guard is
\* live (a second guard on the same id is never granted while the first is
\* held), and the spec carries at most one pending Operation.
C1_OneGuardPerId ==
    \A n \in NexusIds :
        nexuses[n] # NoHandle =>
            /\ Cardinality(GuardsOf(n)) <= 1
            /\ specs[nexuses[n]].operation.op \in
                   {"None", "Create", "Destroy", "Share", "Unshare",
                    "AddChild", "RemoveChild"}

\* ------------------------------------------------------------ serialization
\* p is between its start_update and the end of its complete_update
InUpdate(p) ==
    /\ proc[p].kind \in {"add", "remove"}
    /\ proc[p].pc \in {"dispatch", "complete", "commit"}

\* this step of p is a call of start_update by add/remove_nexus_replica
StartUpdateCalled(p) ==
    /\ proc[p].pc = "start"
    /\ proc[p].kind \in {"add", "remove"}
    /\ \/ proc'[p].pc = "dispatch"
       \/ /\ proc'[p].pc = "done"
          /\ proc'[p].out \in {"NotCreated", "Conflict", "ChildAlreadyExists",
                                "ChildNotFound"}

NoInterleaving ==
    \A p, q \in Procs :
        p # q /\ InUpdate(p) /\ InUpdate(q) => proc[p].nexus # proc[q].nexus

\* C2 as stated: the update sequences of two requests on one nexus id never
\* interleave, and no start_update observes a spec that still carries the
\* other request's pending Operation.
C2_NeverObservesPending ==
    /\ []NoInterleaving
    /\ [][\A p \in Procs :
            StartUpdateCalled(p) =>
                specs[proc[p].hnd].operation.op \notin {"AddChild", "RemoveChild"}]_vars

\* C2 amended: the update sequences of two requests on one nexus id never
\* interleave; a start_update observes a pending Operation only when its
\* request is over (its store write failed and left the spec dirty), and is
\* then rejected with Conflict leaving the spec as it is.
C2_Serialized ==
    /\ []NoInterleaving
    /\ [][\A p \in Procs :
            StartUpdateCalled(p) /\ pending_op(specs[proc[p].hnd]) =>
                /\ \A q \in Procs : InUpdate(q) => proc[q].nexus # proc[p].nexus
                /\ specs[proc[p].hnd].operation.result = "Ok"
                /\ proc'[p].pc = "done"
                /\ proc'[p].out \in {"Conflict", "NotCreated"}
                /\ specs[proc[p].hnd].operation.op \in {"AddChild", "RemoveChild"}
                       => proc'[p].out = "Conflict"
                /\ specs'[proc[p].hnd] = specs[proc[p].hnd]]_vars

\* one request is inside its update while the other waits for the same guard
C2_Waiting ==
    \E p, q \in Procs :
        /\ InUpdate(p)
        /\ proc[q].kind \in {"add", "remove"}
        /\ proc[q].pc = "guard_wait"
        /\ proc[q].hnd = proc[p].hnd

\* C3: every operation guard that is acquired is released again, whatever
\* the outcome of the request (validation failure, success, remote or store
\* failure, the caller abandoning it): no guard is held forever.
C3_GuardReleased ==
    \A h \in Handles : \A w \in Holders : (w \in guards[h]) ~> (w \notin guards[h])

\* a request holds its guard while its remote call is out
C3_HeldAcrossDispatch ==
    \E p \in Procs : proc[p].pc = "dispatch" /\ p \in guards[proc[p].hnd]

\* ------------------------------------------------------------ complete_update
\* this step of p ends complete_update of an add/remove with outcome out
UpdateEnds(p, out) ==
    /\ proc[p].kind \in {"add", "remove"}
    /\ proc[p].pc \in {"dispatch", "complete", "commit"}
    /\ proc'[p].pc = "done"
    /\ proc'[p].out = out

\* C4: when complete_update is called with a successful remote result and
\* the store write succeeds, the pending Operation is folded into the spec
\* (AddChild: the child is in spec.children, RemoveChild: it is not), the
\* spec has no pending Operation afterwards, and the persistent store holds
\* exactly that new spec.
C4_CommitFolds ==
    [][\A p \in Procs :
         UpdateEnds(p, "Ok") =>
            LET h == proc[p].hnd
                n == proc[p].nexus
            IN /\ nexuses'[n] = h
               /\ proc[p].kind = "add" => proc[p].child \in specs'[h].children
               /\ proc[p].kind = "remove" => proc[p].child \notin specs'[h].children
               /\ specs'[h].children \ {proc[p].child} =
                      proc[p].clone.children \ {proc[p].child}
               /\ ~pending_op(specs'[h])
               /\ pstore'[n] = Persisted(specs'[h])]_vars

\* a remove_nexus_replica has committed: the child is gone from the spec
\* and from the stored copy
C4_Committed ==
    \E p \in Procs, n \in NexusIds :
        /\ proc[p].pc = "done" /\ proc[p].kind = "remove" /\ proc[p].out = "Ok"
        /\ nexuses[n] # NoHandle
        /\ pstore[n] = Persisted(specs[nexuses[n]])
        /\ pstore[n].status = "Created"

\* C5: when the remote call of an update fails, complete_update puts the
\* in-memory spec back to the snapshot taken before the operation (same
\* children, same share, no operation in flight), returns the remote error,
\* and leaves the persistent-store copy as it was before start_update.
C5_RemoteFailureReverts ==
    [][\A p \in Procs :
         UpdateEnds(p, "RemoteError") =>
            LET h == proc[p].hnd
                n == proc[p].nexus
            IN /\ nexuses'[n] = h
               /\ specs'[h] = proc[p].clone
               /\ ~pending_op(specs'[h])
               /\ specs'[h].children = clear_op(specs[h]).children
               /\ specs'[h].share = specs[h].share
               /\ pstore' = pstore
               /\ pstore'[n] = Persisted(specs'[h])
               /\ live' = live]_vars

\* an add_nexus_replica has failed remotely on a nexus that has children
C5_Failed ==
    \E p \in Procs, n \in NexusIds :
        /\ proc[p].pc = "done" /\ proc[p].kind = "add"
        /\ proc[p].out = "RemoteError"
        /\ nexuses[n] # NoHandle
        /\ specs[nexuses[n]].children # {}

\* C6: when the remote action succeeded but the store write of
\* complete_update fails, the remote action is not undone, the spec keeps
\* its pending Operation (stays dirty), and the next reconciler pass picks
\* the spec up.
C6_StoreFailureStaysDirty ==
    [][/\ \A p \in Procs :
            UpdateEnds(p, "StoreError") =>
               LET h == proc[p].hnd
                   n == proc[p].nexus
               IN /\ nexuses'[n] = h
                  /\ dirty(specs'[h])
                  /\ specs'[h].operation.op =
                         (IF proc[p].kind = "add" THEN "AddChild" ELSE "RemoveChild")
                  /\ specs'[h].operation.child = proc[p].child
                  /\ specs'[h].operation.result = "Ok"
                  /\ pstore' = pstore
                  /\ live' = live
                  /\ proc[p].kind = "add" => proc[p].child \in live'[n].children
                  /\ proc[p].kind = "remove" => proc[p].child \notin live'[n].children
       /\ rec.pc = "idle" /\ rec'.pc # "idle" =>
            \A n \in NexusIds :
               nexuses[n] # NoHandle /\ dirty(specs[nexuses[n]]) =>
                  nexuses[n] \in rec'.todo]_vars

\* the reconciler holds the guard of a spec left dirty by a failed store
\* write of an AddChild whose remote action stands
C6_ReconcilerPicksUp ==
    /\ rec.pc = "hold"
    /\ specs[rec.cur].operation.op = "AddChild"
    /\ specs[rec.cur].operation.result = "Ok"
    /\ specs[rec.cur].operation.child \in live[specs[rec.cur].uuid].children
    /\ specs[rec.cur].operation.child \notin specs[rec.cur].children


\* ----------------------------------------------------------------- ordering
\* what an operation that acquires the guard of h starts from: the spec
\* without its pending operation
Base(h) == Persisted(clear_op(specs[h]))

\* C7: the store write of a committed spec (or the revert of the in-memory
\* spec on abort) happens before the guard is released: whenever the guard
\* of a spec in the store is free, the in-memory spec is the persisted one
\* or the reverted one, never committed in memory and not persisted.
C7_PersistedBeforeRelease ==
    \A n \in NexusIds :
        LET h == nexuses[n] IN
        h # NoHandle /\ operation_guard_free(h) =>
            IF pstore[n] = NotStored
            THEN specs[h].status = "Creating" \/ specs[h].operation.op = "Destroy"
            ELSE /\ Base(h).children = pstore[n].children
                 /\ Base(h).share = pstore[n].share
                 /\ Base(h).owner = pstore[n].owner
                 /\ Base(h).status = pstore[n].status
                       \/ specs[h].operation.op = "Destroy"

\* a committed update has been released: the guard is free and the stored
\* copy has the child the in-memory spec has
C7_ReleasedCommitted ==
    \E n \in NexusIds :
        /\ nexuses[n] # NoHandle
        /\ operation_guard_free(nexuses[n])
        /\ ~pending_op(specs[nexuses[n]])
        /\ pstore[n] # NotStored
        /\ pstore[n].children # {}
        /\ \E p \in Procs : proc[p].pc = "done" /\ proc[p].out = "Ok"
                              /\ proc[p].kind = "add"

\* ------------------------------------------------------------ get or create
\* this step of p is a call of get_or_create_nexus
GetOrCreateCalled(p) == proc[p].pc = "idle" /\ proc'[p].kind = "create"

\* C8: get_or_create_nexus is idempotent and the first writer wins: a call
\* for an id that has a spec returns the handle of that spec and changes
\* nothing, a call for an id without one inserts the request's spec; either
\* way the store has one spec for the id and the caller holds its handle.
C8_FirstWriterWins ==
    [][\A p \in Procs :
         GetOrCreateCalled(p) =>
            LET n == proc'[p].nexus
                h == proc'[p].hnd
            IN /\ h # NoHandle
               /\ nexuses'[n] = h
               /\ specs'[h].uuid = n
               /\ \A m \in NexusIds \ {n} : nexuses'[m] = nexuses[m]
               /\ \A g \in Handles \ {h} : specs'[g] = specs[g]
               /\ IF nexuses[n] # NoHandle
                  THEN /\ h = nexuses[n]
                       /\ specs'[h] = specs[h]
                  ELSE /\ specs[h] = FreeSpec
                       /\ specs'[h] =
                              NexusSpecFrom(n, specs'[h].children, proc'[p].owner)]_vars

\* two create requests hold the handle of the one spec of the id
C8_SameHandle ==
    \E p, q \in Procs :
        /\ p # q
        /\ proc[p].kind = "create" /\ proc[q].kind = "create"
        /\ proc[p].hnd # NoHandle
        /\ proc[p].hnd = proc[q].hnd
        /\ proc[p].nexus = proc[q].nexus
        /\ nexuses[proc[p].nexus] = proc[p].hnd

\* ------------------------------------------------------------------ destroy
\* this step of p is destroy_nexus finding no spec, or a Deleted one
DestroyOfNothing(p) ==
    /\ proc[p].kind = "destroy"
    /\ proc[p].pc = "start"
    /\ proc[p].hnd = NoHandle \/ specs[proc[p].hnd].status = "Deleted"
    /\ proc'[p] # proc[p]
    /\ proc'[p].out # "Cancelled"

\* C9: destroying a nexus whose id is absent from the spec store, or whose
\* spec is already Deleted, returns success and changes no spec, so that
\* repeating a destroy leaves the store as one destroy left it.
C9_DestroyIdempotent ==
    [][\A p \in Procs :
         /\ proc[p].pc = "idle" /\ proc'[p].kind = "destroy" =>
               /\ proc'[p].pc \in {"start", "guard_wait"}
               /\ nexuses[proc'[p].nexus] = NoHandle =>
                     proc'[p].pc = "start" /\ proc'[p].hnd = NoHandle
         /\ DestroyOfNothing(p) =>
               /\ proc'[p].pc = "done"
               /\ proc'[p].out = "Ok"
               /\ nexuses' = nexuses
               /\ pstore' = pstore
               /\ live' = live
               /\ replicas' = replicas
               /\ \A h \in Handles : specs'[h] = specs[h] \/ specs'[h] = FreeSpec
               /\ \A n \in NexusIds :
                     nexuses[n] # NoHandle => specs'[nexuses[n]] = specs[nexuses[n]]]_vars

\* a destroy request holds the guard of a spec another destroy has deleted
C9_DestroyOfDeleted ==
    \E p \in Procs :
        /\ proc[p].kind = "destroy"
        /\ proc[p].pc = "start"
        /\ proc[p].hnd # NoHandle
        /\ specs[proc[p].hnd].status = "Deleted"

\* C10: no spec with status Deleted is in the spec store, and once a
\* committed destroy has removed a spec no later step mutates it or puts it
\* back into the store.
C10_DeletedIsGone ==
    /\ [](\A n \in NexusIds :
            nexuses[n] # NoHandle => specs[nexuses[n]].status # "Deleted")
    /\ [][\A h \in Handles :
            specs[h].status = "Deleted" =>
               /\ specs'[h] = specs[h] \/ specs'[h] = FreeSpec
               /\ \A n \in NexusIds : nexuses'[n] # h]_vars

\* a Deleted spec is out of the store while a task still holds it, and the
\* id has a new spec
C10_RemovedAndRecreated ==
    \E h \in Handles, n \in NexusIds :
        /\ specs[h].status = "Deleted"
        /\ specs[h].uuid = n
        /\ nexuses[n] \notin {h, NoHandle}

\* ----------------------------------------------------------- crash recovery
\* The store after a restart that follows a crash between start_update and
\* complete_update of an AddChild: the spec carries the operation with no
\* result, no request is in flight, the remote call may or may not have
\* reached the node.
CrashedSpec(c, r) ==
    [uuid |-> "n1", children |-> c, share |-> FALSE, owner |-> NoVolume,
     status |-> "Created", operation |-> Op("AddChild", r)]

CrashInit ==
    /\ observe = FALSE
    /\ sched = NoSched
    /\ proc = [p \in Procs |-> IdleProc]
    /\ rec = IdleRec
    /\ guards = [h \in Handles |-> {}]
    /\ nexuses = [n \in NexusIds |-> 1]
    /\ \E r \in Replicas : \E c \in SUBSET (Replicas \ {r}) :
          \E reached \in BOOLEAN :
          /\ specs = [h \in Handles |-> IF h = 1 THEN CrashedSpec(c, r) ELSE FreeSpec]
          /\ pstore = [n \in NexusIds |-> Persisted(clear_op(CrashedSpec(c, r)))]
          /\ live = [n \in NexusIds |->
                       [exists |-> TRUE, share |-> FALSE,
                        children |-> IF reached THEN c \cup {r} ELSE c]]
          /\ replicas = [x \in Replicas |->
                           [exists |-> TRUE, volume |-> "v1",
                            nexuses |-> IF (reached /\ x = r) \/ x \in c
                                        THEN {"n1"} ELSE {}]]

CrashSpec == CrashInit /\ [][Step]_vars

\* the operation a crash left on the spec: recorded, without a result
CrashLeft(spec) ==
    /\ spec.operation.op = "AddChild"
    /\ spec.operation.result = "None"

\* C11: from a store where a nexus spec carries a pending AddChild and no
\* request is in flight, one call of reconcile_dirty_nexuses lists the
\* spec, takes its guard when it is free, and completes or reverts the
\* operation: afterwards the spec has no pending operation.
C11_CrashRecovery ==
    [][/\ rec.pc = "idle" /\ rec' # rec =>
            \A n \in NexusIds : nexuses[n] # NoHandle => nexuses[n] \in rec'.todo
       /\ \A h \in Handles :
            rec.pc = "scan" /\ h \in rec.todo /\ rec'.todo = rec.todo \ {h}
            /\ operation_guard_free(h) => rec'.pc = "hold" /\ rec'.cur = h
       /\ rec.pc = "hold" /\ rec'.pc # "hold" /\ CrashLeft(specs[rec.cur]) =>
            LET h == rec.cur IN
            /\ ~pending_op(specs'[h])
            /\ nexuses'[specs[h].uuid] = h
            /\ \/ specs'[h] = clear_op(specs[h])
               \/ /\ specs'[h] = commit_op(specs[h])
                  /\ pstore'[specs[h].uuid] = Persisted(specs'[h])
            /\ pstore'[specs[h].uuid] = Persisted(specs'[h])
            /\ guards'[h] = {}]_vars

\* the pass holds the guard of the spec the crash left dirty
C11_PassHoldsCrashed ==
    /\ rec.pc = "hold"
    /\ CrashLeft(specs[rec.cur])
    /\ \A p \in Procs : proc[p].pc \in {"idle", "guard_wait"}

\* ------------------------------------------------- the result of a pass
\* this step ends a pass of reconcile_dirty_nexuses; rec'.pending_ops is
\* what it returns
PassEnds ==
    /\ rec'.pc = "idle"
    /\ rec' # rec

\* some spec in the store is dirty after this step
StillDirty ==
    \E n \in NexusIds : nexuses'[n] # NoHandle /\ dirty(specs'[nexuses'[n]])

\* C12 as stated: reconcile_dirty_nexuses returns true if and only if, when
\* the pass ends, some nexus spec in the store still has a pending
\* operation; it never returns false while a spec is dirty.
C12_ReturnsDirty ==
    [][PassEnds => (rec'.pending_ops <=> StillDirty)]_vars

\* C12 amended: reconcile_dirty_nexuses returns true if and only if
\* handle_incomplete_ops returned false for a spec whose guard the pass
\* took, and then a spec in the store is still dirty; a spec the pass
\* skipped because its guard was held is not counted.
C12_ReturnsUnhandled ==
    [][/\ PassEnds /\ rec'.pending_ops => StillDirty
       /\ rec.pc = "hold" /\ rec'.pc # "hold" =>
            (rec'.pending_ops <=> (rec.pending_ops \/ dirty(specs'[rec.cur])))
       /\ rec.pc = "scan" /\ rec'.pc # "hold" =>
            rec'.pending_ops = rec.pending_ops
       /\ rec.pc = "idle" /\ rec'.pc # "idle" => ~rec'.pending_ops]_vars

\* a pass has returned true and the spec it could not resolve is dirty
C12_ReturnedTrue ==
    /\ rec.pc = "idle"
    /\ rec.pending_ops
    /\ \E n \in NexusIds : nexuses[n] # NoHandle /\ dirty(specs[nexuses[n]])

\* ------------------------------------------------------- reconciler liveness
\* the spec stored under n carries a pending operation and nobody works on it
LeftDirty(n) ==
    /\ nexuses[n] # NoHandle
    /\ dirty(specs[nexuses[n]])
    /\ guards[nexuses[n]] = {}

\* n has no spec in the store, or its spec has no pending operation
Resolved(n) == nexuses[n] = NoHandle \/ ~dirty(specs[nexuses[n]])

Waiting(p) == proc[p].pc = "guard_wait"

Acquired(p) == proc[p].hnd # NoHandle /\ p \in guards[proc[p].hnd]

DispatchedOk(p, kind) ==
    /\ proc[p].kind = kind
    /\ proc[p].pc = "dispatch"
    /\ proc'[p].pc = "complete"

\* this step returns Ok to the caller of p's request of this kind
ReturnsOk(p, kind) ==
    /\ proc[p].kind = kind
    /\ proc[p].pc \notin {"idle", "done"}
    /\ proc'[p].pc = "done"
    /\ proc'[p].out = "Ok"

\* replica r without nexus n among its owners, nothing else changed
Disowned(r, n) == [replicas[r] EXCEPT !.nexuses = @ \ {n}]

\* replica r with nexus n among its owners, nothing else changed
Owned(r, n) == [replicas[r] EXCEPT !.nexuses = @ \cup {n}]

\* C15: after a nexus N is destroyed, N is in the owner set of no replica
\* that its spec listed as a child and that has a spec in the store; the
\* destroy changes nothing else of any replica (its volume, its other nexus
\* owners, the replicas that are not children).
C15_DestroyDisowns ==
    [][/\ \A p \in Procs :
            DispatchedOk(p, "destroy") =>
               \A r \in Replicas :
                  replicas'[r] =
                     IF r \in specs[proc[p].hnd].children /\ replicas[r].exists
                     THEN Disowned(r, proc[p].nexus)
                     ELSE replicas[r]
       /\ \A n \in NexusIds :
            nexuses[n] # NoHandle /\ nexuses'[n] = NoHandle =>
               \A r \in specs[nexuses[n]].children :
                  replicas'[r].exists => n \notin replicas'[r].nexuses]_vars

\* a destroy has been carried out on a nexus whose child replica has a
\* volume and another nexus as owners, and they are still its owners
C15_DestroyedKeepsOthers ==
    \E p \in Procs :
        /\ proc[p].kind = "destroy"
        /\ proc[p].pc = "commit"
        /\ \E r \in specs[proc[p].hnd].children :
              /\ replicas[r].exists
              /\ replicas[r].volume = specs[proc[p].hnd].owner
              /\ replicas[r].volume # NoVolume
              /\ replicas[r].nexuses = {OtherNexus}

\* C16: when the removal of a replica child from nexus N completes
\* successfully, N is not in that replica's owner set; the removal takes only
\* N from the owners of that replica and changes no other replica.
C16_RemoveDisowns ==
    [][\A p \in Procs :
          /\ DispatchedOk(p, "remove") =>
                \A r \in Replicas :
                   replicas'[r] =
                      IF r = proc[p].child /\ replicas[r].exists
                      THEN Disowned(r, proc[p].nexus)
                      ELSE replicas[r]
          /\ ReturnsOk(p, "remove") =>
                /\ replicas' = replicas
                /\ replicas[proc[p].child].exists =>
                      proc[p].nexus \notin replicas[proc[p].child].nexuses]_vars

\* the removal of a replica that had been added to the nexus is about to
\* return Ok; its volume and its other nexus owner are still its owners
C16_RemovedKeepsOthers ==
    \E p \in Procs :
        /\ proc[p].kind = "remove"
        /\ proc[p].pc = "commit"
        /\ proc[p].child \in proc[p].clone.children
        /\ replicas[proc[p].child].exists
        /\ replicas[proc[p].child].volume = OtherVolume
        /\ replicas[proc[p].child].nexuses = {OtherNexus}

\* C17 as stated: when a nexus Create completes successfully, the nexus is
\* an owner of every existing replica that its spec lists as a child,
\* whether or not the request names an owning volume, and the create
\* changes no other replica.
C17_CreateOwnsEveryChild ==
    [][\A p \in Procs :
          /\ DispatchedOk(p, "create") =>
                \A r \in Replicas :
                   replicas'[r] =
                      IF r \in specs[proc[p].hnd].children /\ replicas[r].exists
                      THEN Owned(r, proc[p].nexus)
                      ELSE replicas[r]
          /\ ReturnsOk(p, "create") =>
                \A r \in specs[proc[p].hnd].children :
                   replicas[r].exists => proc[p].nexus \in replicas[r].nexuses]_vars

\* C17 amended: when a nexus Create that names an owning volume completes
\* successfully, the nexus is an owner of every existing replica of that
\* volume that its spec lists as a child; the create changes no other
\* replica, and a create that names no owner changes no replica at all.
C17_CreateOwnsVolumeChildren ==
    [][\A p \in Procs :
          /\ DispatchedOk(p, "create") =>
                \A r \in Replicas :
                   replicas'[r] =
                      IF /\ r \in specs[proc[p].hnd].children
                         /\ replicas[r].exists
                         /\ proc[p].owner # NoVolume
                         /\ replicas[r].volume = proc[p].owner
                      THEN Owned(r, proc[p].nexus)
                      ELSE replicas[r]
          /\ ReturnsOk(p, "create") =>
                /\ replicas' = replicas
                /\ \A r \in specs[proc[p].hnd].children :
                      /\ replicas[r].exists
                      /\ proc[p].owner # NoVolume
                      /\ replicas[r].volume = proc[p].owner
                      => proc[p].nexus \in replicas[r].nexuses]_vars

\* a create that names its volume is about to return Ok and owns the child
\* replica of that volume next to the replica's other nexus owner
C17_CreatedOwnsChild ==
    \E p \in Procs :
        /\ proc[p].kind = "create"
        /\ proc[p].pc = "commit"
        /\ proc[p].owner # NoVolume
        /\ \E r \in specs[proc[p].hnd].children :
              /\ replicas[r].volume = proc[p].owner
              /\ replicas[r].nexuses = {proc[p].nexus, OtherNexus}

\* C18: in remove_nexus_child_by_uri with destroy_replica = true, when the
\* removal of the replica child succeeded and the node of the replica's pool
\* is not found, the call returns Ok, the replica is disowned from its volume
\* and its spec stays in the store, with its nexus owners as they were.  The
\* call is at this point only with destroy_replica set and the child removed
\* from the spec and from the nexus on the node.
C18_NodeUnresolved ==
    [][\A p \in Procs :
          /\ proc'[p].pc = "disown_volume" =>
                /\ proc'[p].destroy_replica
                /\ replicas'[proc'[p].child].exists
                /\ proc'[p].child \notin specs'[proc'[p].hnd].children
                /\ proc'[p].child \notin live'[proc'[p].nexus].children
                /\ ~pending_op(specs'[proc'[p].hnd])
          /\ proc[p].pc = "disown_volume" /\ proc'[p] # proc[p] =>
                /\ proc'[p].pc = "done"
                /\ proc'[p].out = "Ok"
                /\ replicas'[proc[p].child] =
                      [replicas[proc[p].child] EXCEPT !.volume = NoVolume]
                /\ replicas'[proc[p].child].exists
                /\ \A r \in Replicas \ {proc[p].child} : replicas'[r] = replicas[r]
                /\ p \notin guards'[proc[p].hnd]]_vars

\* the node of a replica owned by a volume was not found after the replica
\* was removed from the nexus
C18_NodeNotFound ==
    \E p \in Procs :
        /\ proc[p].pc = "disown_volume"
        /\ replicas[proc[p].child].volume \in Volumes

\* ------------------------------------------------------------- validation
\* start_update_op has answered p's request of this kind
Answered(p, kind) == proc[p].pc = "done" /\ proc[p].kind = kind

\* the request was accepted and its operation recorded on the spec
Recorded(p) ==
    /\ proc[p].out = "Ok"
    /\ specs[proc[p].hnd].operation = NexusOperation(proc[p])

\* the request was rejected with err and the spec has no operation
Rejected(p, err) ==
    /\ proc[p].out = err
    /\ ~pending_op(specs[proc[p].hnd])

\* C19: start_update_op rejects Share with AlreadyShared exactly when the
\* live nexus state is shared and Unshare with NotShared exactly when the
\* live state is not shared; in every other case it accepts the operation
\* and records it on the spec.
C19_ShareAgainstLiveState ==
    \A p \in Procs :
       /\ Answered(p, "share") =>
             IF live[proc[p].nexus].share
             THEN Rejected(p, "AlreadyShared") ELSE Recorded(p)
       /\ Answered(p, "unshare") =>
             IF ~live[proc[p].nexus].share
             THEN Rejected(p, "NotShared") ELSE Recorded(p)

\* a Share was rejected for a nexus that is shared on the node while its
\* spec says it is not
C19_RejectedByLiveState ==
    \E p \in Procs :
        /\ Answered(p, "share")
        /\ proc[p].out = "AlreadyShared"
        /\ ~specs[proc[p].hnd].share

\* C20 as stated: start_update_op rejects AddChild(c) with
\* ChildAlreadyExists whenever c is among the spec's children or among the
\* children of the live state, and accepts it only when it is in neither.
C20_AddChildAgainstBoth ==
    \A p \in Procs :
       Answered(p, "add") =>
          IF \/ proc[p].child \in specs[proc[p].hnd].children
             \/ proc[p].child \in live[proc[p].nexus].children
          THEN Rejected(p, "ChildAlreadyExists") ELSE Recorded(p)

\* C20 amended: start_update_op rejects AddChild(c) with ChildAlreadyExists
\* exactly when c is among the spec's children; whether c is among the
\* children of the live state plays no part, and every other AddChild is
\* accepted and recorded.
C20_AddChildAgainstSpec ==
    \A p \in Procs :
       Answered(p, "add") =>
          IF proc[p].child \in specs[proc[p].hnd].children
          THEN Rejected(p, "ChildAlreadyExists") ELSE Recorded(p)

\* an AddChild was accepted for a child that the nexus on the node already
\* has and the spec does not
C20_AcceptedThoughLive ==
    \E p \in Procs :
        /\ Answered(p, "add")
        /\ proc[p].out = "Ok"
        /\ proc[p].child \in live[proc[p].nexus].children
        /\ proc[p].child \notin specs[proc[p].hnd].children

\* C21: start_update_op rejects RemoveChild(c) with ChildNotFound if and only
\* if c is neither among the spec's children nor among the children of the
\* live nexus state; with c in either one the operation is accepted and
\* recorded.
C21_RemoveChildAgainstBoth ==
    \A p \in Procs :
       Answered(p, "remove") =>
          IF /\ proc[p].child \notin specs[proc[p].hnd].children
             /\ proc[p].child \notin live[proc[p].nexus].children
          THEN Rejected(p, "ChildNotFound") ELSE Recorded(p)

\* a RemoveChild was accepted for a child that only the nexus on the node has
C21_AcceptedByLiveState ==
    \E p \in Procs :
        /\ Answered(p, "remove")
        /\ proc[p].out = "Ok"
        /\ proc[p].child \in live[proc[p].nexus].children
        /\ proc[p].child \notin specs[proc[p].hnd].children

\* ------------------------------------------------------ placement pipeline
\* how many times x is in the list
Count(x, list) == Cardinality({i \in 1..Len(list) : list[i] = x})

\* s is t with some items left out, the others in the order of t
RECURSIVE IsSubList(_, _)
IsSubList(s, t) ==
    IF s = <<>> THEN TRUE
    ELSE IF t = <<>> THEN FALSE
    ELSE IF Head(s) = Head(t) THEN IsSubList(Tail(s), Tail(t))
    ELSE IsSubList(s, Tail(t))

Filters == {"filter", "unused_nodes", "enough_free_space"}

\* this step applies a combinator of this kind
Applies(op) == sched'.op = op /\ sched'.steps = sched.steps + 1

\* C22: filter returns a sub-list of its input, for every candidate list and
\* every predicate (never more items, no item that the input has not), and
\* sort returns a permutation of its input (every item as often as before).
C22_FilterMonotonicity ==
    [][/\ \A op \in Filters :
            Applies(op) =>
               /\ sched'.list = sched.out
               /\ IsSubList(sched'.out, sched'.list)
               /\ Len(sched'.out) <= Len(sched'.list)
               /\ Range(sched'.out) \subseteq Range(sched'.list)
       /\ Applies("sort") =>
               /\ sched'.list = sched.out
               /\ Len(sched'.out) = Len(sched'.list)
               /\ \A x \in PoolItems :
                     Count(x, sched'.out) = Count(x, sched'.list)]_vars

\* a second combinator, a filter, has dropped some of the items that the
\* first one left and kept others
C22_FilteredAgain ==
    /\ sched.op = "filter"
    /\ sched.steps = 2
    /\ 0 < Len(sched.out)
    /\ Len(sched.out) < Len(sched.list)
    /\ Len(sched.list) < MaxLen

\* C23: unused_nodes keeps a pool candidate if and only if its node hosts no
\* data replica of the requesting volume: the result is the candidates on
\* the other nodes, each as often and in the order of the input.
C23_AntiAffinity ==
    [][Applies("unused_nodes") =>
          /\ IsSubList(sched'.out, sched.out)
          /\ \A x \in PoolItems :
                Count(x, sched'.out) =
                   IF x.node \in sched.request.data_nodes
                   THEN 0 ELSE Count(x, sched.out)]_vars

\* a volume that uses nodes A and B, candidates on A, B and C: the
\* candidates on C are what unused_nodes left
C23_OnlyNodeC ==
    /\ sched.op = "unused_nodes"
    /\ sched.request.data_nodes = {"A", "B"}
    /\ {x.node : x \in Range(sched.list)} = {"A", "B", "C"}
    /\ sched.out # <<>>
    /\ {x.node : x \in Range(sched.out)} = {"C"}

\* C24: enough_free_space accepts a pool if and only if its free space is
\* strictly greater than the requested size: free space equal to the size
\* is rejected, free space of size + 1 is accepted.
C24_FreeSpaceBoundary ==
    [][Applies("enough_free_space") =>
          /\ IsSubList(sched'.out, sched.out)
          /\ \A x \in PoolItems :
                /\ Count(x, sched'.out) =
                      IF x.free_space > sched.request.size
                      THEN Count(x, sched.out) ELSE 0
                /\ x.free_space = sched.request.size => Count(x, sched'.out) = 0
                /\ x.free_space = sched.request.size + 1 =>
                      Count(x, sched'.out) = Count(x, sched.out)]_vars

\* of a pool with free space equal to the size and one with one byte more,
\* enough_free_space kept the second
C24_AtTheBoundary ==
    /\ sched.op = "enough_free_space"
    /\ \E x \in Range(sched.list) : x.free_space = sched.request.size
    /\ \E x \in Range(sched.list) : x.free_space = sched.request.size + 1
    /\ sched.out # <<>>
    /\ \A x \in Range(sched.out) : x.free_space = sched.request.size + 1

\* --------------------------------------------------------------- child sort
Attached(item) == item.status # <<>>

Reverse(ord) ==
    CASE ord = "Less" -> "Greater"
      [] ord = "Greater" -> "Less"
      [] OTHER -> ord

\* C25, as amended: a replica A with no nexus-child status compares Greater
\* than a replica B that is a child of a nexus, and B compares Less than A,
\* so that in the sorted candidate list every replica that is part of no
\* nexus comes after every replica that is the child of one.
C25_UnattachedSortsAfter ==
    /\ (sched.op = "compare" /\ ~Attached(sched.a) /\ Attached(sched.b))
          => (sched.ab = "Greater" /\ sched.ba = "Less")
    /\ sched.op = "sort_children"
          => \A i, j \in 1..Len(sched.out) :
                (~Attached(sched.out[i]) /\ Attached(sched.out[j])) => j < i

\* a list that starts with a replica of no nexus, followed by two children
\* of a nexus, has been sorted and the first candidate has become the last
C25_SortedUnattachedLast ==
    /\ sched.op = "sort_children"
    /\ ~Attached(sched.list[1])
    /\ Attached(sched.list[2])
    /\ Attached(sched.list[3])
    /\ sched.out[3] = sched.list[1]

\* C25, as stated: a replica A with no nexus-child status compares Less
\* than an attached replica B, B compares Greater than A, and A comes first
\* in the sorted list.
C25_UnattachedSortsBefore ==
    /\ (sched.op = "compare" /\ ~Attached(sched.a) /\ Attached(sched.b))
          => (sched.ab = "Less" /\ sched.ba = "Greater")
    /\ sched.op = "sort_children"
          => \A i, j \in 1..Len(sched.out) :
                (~Attached(sched.out[i]) /\ Attached(sched.out[j])) => i < j

\* C26: for two attached replicas whose child states compare Equal, the
\* comparator answers Equal when both are local or both are shared, and
\* otherwise orders the local one after the shared one: sort(local, shared)
\* is Greater and sort(shared, local) is Less.
C26_LocalSortsAfter ==
    (/\ sched.op = "compare"
     /\ Attached(sched.a)
     /\ Attached(sched.b)
     /\ partial_cmp(sched.a.status[1].state, sched.b.status[1].state)
           = "Equal")
       => /\ sched.a.shared = sched.b.shared => sched.ab = "Equal"
          /\ (~sched.a.shared /\ sched.b.shared)
                => (sched.ab = "Greater" /\ sched.ba = "Less")
          /\ (sched.a.shared /\ ~sched.b.shared)
                => (sched.ab = "Less" /\ sched.ba = "Greater")

\* a local and a shared replica, both online children, have been compared
C26_LocalAgainstShared ==
    /\ sched.op = "compare"
    /\ Attached(sched.a)
    /\ Attached(sched.b)
    /\ sched.a.status[1].state = "Online"
    /\ sched.b.status[1].state = "Online"
    /\ ~sched.a.shared
    /\ sched.b.shared
    /\ sched.ab = "Greater"

\* C28: the comparator is a consistent total order: sort(a, b) is the
\* reverse of sort(b, a), sort(a, a) is Equal, and when neither sort(a, b)
\* nor sort(b, c) is Greater then sort(a, c) is not Greater.
C28_TotalOrder ==
    sched.op = "compare"
       => /\ sched.ab = Reverse(sched.ba)
          /\ sched.aa = "Equal"
          /\ (sched.ab # "Greater" /\ sched.bc # "Greater")
                => sched.ac # "Greater"

\* ------------------------------------------------------- pending operation
\* C27: a start_update_op that passes validation records the operation as
\* pending on the spec and changes nothing else of it, and for as long as
\* the task stays between its start_update and the commit of its
\* complete_update no step changes the spec: children, share, owner and
\* status are those from before the operation.
C27_OnlyThePendingOp ==
    [][\A p \in Procs :
         LET h == proc[p].hnd
         IN /\ (StartUpdateCalled(p) /\ proc'[p].pc = "dispatch")
                  => /\ ~pending_op(specs[h])
                     /\ specs'[h] = [specs[h] EXCEPT
                                        !.operation = NexusOperation(proc[p])]
            /\ (InUpdate(p) /\ InUpdate(p)')
                  => /\ specs'[h] = specs[h]
                     /\ Persisted(specs[h]) = Persisted(proc[p].clone)]_vars

\* the node has added the child and the store holds the new spec, while the
\* spec in memory still has the children from before with the operation
\* pending
C27_PendingUntilCommit ==
    \E p \in Procs :
        /\ proc[p].kind = "add"
        /\ proc[p].pc = "commit"
        /\ proc[p].child \in live[proc[p].nexus].children
        /\ proc[p].child \in pstore[proc[p].nexus].children
        /\ proc[p].child \notin specs[proc[p].hnd].children
        /\ specs[proc[p].hnd].operation = Op("AddChild", proc[p].child)

\* ------------------------------------------------------- created nexuses
\* C29: get_created_nexuses returns exactly the specs of the store whose
\* status is Created; a spec that is Creating, Deleting or Deleted is never
\* among them.
C29_ExactlyCreated ==
    \A h \in Handles :
       h \in get_created_nexuses
          <=> /\ \E n \in NexusIds : nexuses[n] = h
              /\ specs[h].status = "Created"

\* ------------------------------------------------------ rejected updates
\* the step of p is a start_update that validation rejects
RejectedByValidation(p) ==
    /\ StartUpdateCalled(p)
    /\ proc'[p].pc = "done"
    /\ proc'[p].out \in {"ChildAlreadyExists", "ChildNotFound"}

\* C30: when start_update_op rejects the operation, the spec is left
\* exactly as it was, with no operation pending, and add_nexus_replica /
\* remove_nexus_replica return the error at once: the node is not called
\* (the live state is not changed), no replica's owner set changes and the
\* store is not written; the guard is released.
C30_RejectedLeavesNoTrace ==
    [][\A p \in Procs :
         RejectedByValidation(p) =>
            LET h == proc[p].hnd
            IN /\ specs'[h] = specs[h]
               /\ ~pending_op(specs'[h])
               /\ nexuses' = nexuses
               /\ live' = live
               /\ replicas' = replicas
               /\ pstore' = pstore
               /\ p \notin guards'[h]
               /\ proc'[p].out = IF proc[p].kind = "add"
                                 THEN "ChildAlreadyExists"
                                 ELSE "ChildNotFound"]_vars

\* an add_nexus_replica has been answered ChildAlreadyExists for a child of
\* the spec, and the spec is clean with its guard free
C30_AddRejected ==
    \E p \in Procs, n \in NexusIds :
        /\ proc[p].pc = "done"
        /\ proc[p].kind = "add"
        /\ proc[p].out = "ChildAlreadyExists"
        /\ nexuses[n] # NoHandle
        /\ specs[nexuses[n]].children # {}
        /\ specs[nexuses[n]].children = live[n].children
        /\ specs[nexuses[n]].status = "Created"
        /\ ~pending_op(specs[nexuses[n]])
        /\ guards[nexuses[n]] = {}

\* ------------------------------------------------- ownership consistency
\* no request is in flight on nexus n: no task is working on it and no
\* guard of one of its spec objects is held
Quiet(n) ==
    /\ \A p \in Procs : proc[p].nexus = n => proc[p].pc \in {"idle", "done"}
    /\ GuardsOf(n) = {}

\* nexus n has a spec in the store that lists replica r as a child
ListsChild(n, r) ==
    /\ nexuses[n] # NoHandle
    /\ r \in specs[nexuses[n]].children

\* C31: in every state with no request in flight on nexus N, if
\* N is in the owner set of replica R then N's spec is in the store and
\* lists R as a child.
C31_OwnerListsChild ==
    \A n \in NexusIds, r \in Replicas :
       (Quiet(n) /\ n \in replicas[r].nexuses) => ListsChild(n, r)

\* ------------------------------------------------- the pass and held guards
\* C32: the reconciler never waits on a guard.  While a pass is scanning it
\* can always take its next step; when it comes to a spec whose guard is
\* held by a request it moves on at once without the guard; it holds a
\* guard only when it got it free; and no step of the pass changes a spec
\* whose guard a request holds: pending operation, children and status stay
\* as they are.
C32_PassSkipsHeldGuard ==
    /\ [](rec.pc = "scan"
            => ENABLED (\E h \in Handles : reconcile_dirty_nexuses_guard(h)))
    /\ [](rec.pc = "hold" => guards[rec.cur] = {Reconciler})
    /\ [][\A h \in Handles :
            (guards[h] \cap Procs # {} /\ rec' # rec)
               => /\ specs'[h] = specs[h]
                  /\ guards'[h] = guards[h]
                  /\ (rec.pc = "scan" /\ h \in rec.todo /\ h \notin rec'.todo)
                        => /\ rec'.pc \in {"scan", "idle"}
                           /\ rec'.cur = NoHandle
                           /\ rec'.pending_ops =
                                 IF rec'.pc = "idle"
                                 THEN observe /\ rec.pending_ops
                                 ELSE rec.pending_ops
                           /\ proc' = proc
                           /\ pstore' = pstore]_vars

\* a pass has ended after skipping the spec of the store, whose guard a
\* request still holds between the node's answer and the store write, its
\* operation still pending
C32_SkippedWhileHeld ==
    \E p \in Procs, n \in NexusIds :
        /\ rec.pc = "idle"
        /\ rec.skipped
        /\ ~rec.pending_ops
        /\ nexuses[n] # NoHandle
        /\ guards[nexuses[n]] = {p}
        /\ proc[p].pc = "complete"
        /\ pending_op(specs[nexuses[n]])

\* -------------------------------------------- after the child is removed
\* p is in remove_nexus_child_by_uri past the removal of the replica child
AfterRemoval(p) ==
    proc[p].pc \in {"destroy_replica", "destroy_node", "disown_volume"}

\* C33: in remove_nexus_child_by_uri with destroy_replica = true, once the
\* removal of the child from the nexus has succeeded, the nexus spec no
\* longer lists the child and keeps it so; the call ends with
\* ReplicaNotFound exactly when the replica has no spec in the store, and
\* with Ok in every other case: on a node that was found, whether
\* disown_and_destroy_replica destroyed the replica, failed after disowning
\* it or failed before, the answer is Ok.
C33_DestroyFailureIsOk ==
    [][\A p \in Procs :
         LET h == proc[p].hnd
             n == proc[p].nexus
             r == proc[p].child
         IN /\ (AfterRemoval(p) \/ AfterRemoval(p)')
                  => /\ proc'[p].pc # "done" =>
                           /\ proc'[p].destroy_replica
                           /\ proc'[p].child \notin specs'[proc'[p].hnd].children
                           /\ ~pending_op(specs'[proc'[p].hnd])
                     /\ AfterRemoval(p) => specs'[h] = specs[h]
            /\ (AfterRemoval(p) /\ proc'[p].pc = "done")
                  => /\ proc'[p].out = IF get_replica(r) THEN "Ok"
                                       ELSE "ReplicaNotFound"
                     /\ nexuses'[n] = h
                     /\ p \notin guards'[h]
            /\ (proc[p].pc = "destroy_replica" /\ proc'[p] # proc[p])
                  => /\ replicas' = replicas
                     /\ get_replica(r) => proc'[p].pc \in {"destroy_node",
                                                           "disown_volume"}
            /\ (proc[p].pc = "destroy_node" /\ proc'[p] # proc[p])
                  => /\ proc'[p].pc = "done"
                     /\ proc'[p].out = "Ok"
                     /\ replicas'[r] \in {NoReplica, replicas[r],
                                          disown_volume_replica(replicas, r)[r]}]_vars

\* the child has been removed from the nexus, the spec committed and
\* stored, and the node of the replica was found: the call is about to
\* disown and destroy a replica that a volume owns
C33_RemovedNodeFound ==
    \E p \in Procs :
        /\ proc[p].pc = "destroy_node"
        /\ proc[p].destroy_replica
        /\ replicas[proc[p].child].volume \in Volumes
        /\ proc[p].child \notin specs[proc[p].hnd].children
        /\ proc[p].child \notin live[proc[p].nexus].children
        /\ pstore[proc[p].nexus] = Persisted(specs[proc[p].hnd])

====
